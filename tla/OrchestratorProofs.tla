------------------------- MODULE OrchestratorProofs -------------------------
(***************************************************************************)
(* Theorems about the orchestrator, for every set of tools, plans,         *)
(* requests and registries, and any number of registry edits.              *)
(***************************************************************************)
EXTENDS OrchestratorProperties, RegistryLemmas

-----------------------------------------------------------------------------
(* The operators the model is built from.                                  *)

LEMMA FirstStampType == FirstStamp \in Nat
  BY ToolsFinite, FS_CardinalityType DEF FirstStamp

(* The router turns a subtask into candidate calls.                        *)
LEMMA CandidatesType ==
  ASSUME NEW reg, IsRegistry(reg), NEW subtask \in Subtask, NEW mode
  PROVE  CandidatesFor(subtask, reg, mode) \subseteq Candidate
<1> SUFFICES ASSUME NEW n \in Chosen(reg, subtask.cap, mode)
             PROVE  [id |-> subtask.id, cap |-> subtask.cap, tool |-> n,
                     scope |-> reg[n].manifest.scope,
                     rank |-> Rank(reg, subtask.cap, n)] \in Candidate
  BY DEF CandidatesFor
<1>1. n \in Tools /\ reg[n].manifest.scope \in Scopes
  BY DEF Chosen, Offers, IsRegistry, Entry, Manifest
<1>2. Rank(reg, subtask.cap, n) \in Nat
  BY RankType
<1> QED
  BY <1>1, <1>2 DEF Candidate, Subtask

LEMMA RouteType ==
  ASSUME NEW reg, IsRegistry(reg), NEW p \in Seq(Subtask), NEW mode
  PROVE  LET routed == RouteCandidates(p, reg, mode)
         IN  /\ DOMAIN routed \subseteq Ids
             /\ routed \in [DOMAIN routed -> SUBSET Candidate]
             /\ RouteUnroutable(p, reg) \subseteq Ids
<1>1. \A i \in DOMAIN p : p[i] \in Subtask /\ p[i].id \in Ids
  <2>1. \A i \in DOMAIN p : p[i] \in Subtask
    OBVIOUS
  <2> QED
    BY <2>1 DEF Subtask
<1>2. Routable(p, reg) \subseteq DOMAIN p
  BY DEF Routable
<1>3. \A id : \A i \in LastWithId(p, Routable(p, reg), id) :
        CandidatesFor(p[i], reg, mode) \subseteq Candidate
  BY <1>1, <1>2, CandidatesType DEF LastWithId
<1> QED
  BY <1>1, <1>2, <1>3 DEF RouteCandidates, RouteUnroutable

-----------------------------------------------------------------------------
(* Type correctness.                                                       *)

(* The registry holds what callers register, in order of insertion.        *)
RegistryInv ==
  \A n \in DOMAIN tools : /\ tools[n].manifest \in Manifests[n]
                          /\ tools[n].since < FirstStamp + edits

(* Before the gate's last word the executor has not been entered.          *)
Idle == Deciding => /\ batches = <<>> /\ running = {}
                    /\ invocations = {} /\ results = {}

TypeInv == TypeOK /\ RegistryInv /\ Idle

LEMMA InitTypeInv == Init => TypeInv
<1> SUFFICES ASSUME Init PROVE TypeInv
  OBVIOUS
<1>1. TypeOK
  BY InitialRegistriesTyped, MaxEditsTyped
     DEF Init, TypeOK, Nodes, MAX_REPLANS
<1>2. RegistryInv
  BY InitialRegistriesTyped, FirstStampType DEF Init, RegistryInv, IsRegistry, Entry
<1> QED
  BY <1>1, <1>2 DEF TypeInv, Idle, Init

(* A step of a caller that edits the registry.                             *)
LEMMA EditTypeInv == TypeInv /\ EditStep => TypeInv'
<1> SUFFICES ASSUME TypeInv, EditStep PROVE TypeInv'
  OBVIOUS
<1> USE DEF TypeInv, TypeOK
<1>1. \A n \in DOMAIN tools : tools[n].since \in Nat
  BY DEF IsRegistry, Entry
<1>2. ASSUME NEW n \in Tools, NEW m \in Manifests[n], NEW replace \in BOOLEAN,
             RegisterTool(n, m, replace)
      PROVE  TypeInv'
  <2>1. m \in Manifest
    BY ManifestsTyped
  <2>2. FirstStamp + edits \in Nat
    BY FirstStampType, MaxEditsTyped
  <2>3. IsRegistry(tools')
    BY <1>2, <2>1, <2>2, RegisterType DEF RegistryInv, RegisterTool
  <2>4. edits' \in 0..MaxEdits
    BY <1>2, MaxEditsTyped DEF RegisterTool
  <2>5. RegistryInv'
    BY <1>1, <1>2, <2>2, FirstStampType DEF RegistryInv, RegisterTool, Register
  <2> QED
    BY <1>2, <2>3, <2>4, <2>5
       DEF RegisterTool, planVars, routeVars, gateVars, runVars, reportVars,
           Idle, Deciding
<1>3. ASSUME NEW n \in Tools, UnregisterTool(n)
      PROVE  TypeInv'
  <2>1. IsRegistry(tools')
    BY <1>3, UnregisterType DEF UnregisterTool
  <2>2. edits' \in 0..MaxEdits
    BY <1>3, MaxEditsTyped DEF UnregisterTool
  <2>3. RegistryInv'
    BY <1>1, <1>3, FirstStampType DEF RegistryInv, UnregisterTool, Unregister
  <2> QED
    BY <1>3, <2>1, <2>2, <2>3
       DEF UnregisterTool, planVars, routeVars, gateVars, runVars, reportVars,
           Idle, Deciding
<1> QED
  BY <1>2, <1>3 DEF EditStep

(* The operators of the gate stay within the candidates.                   *)
LEMMA GateType ==
  ASSUME TypeOK
  PROVE  /\ AllCandidates(candidates) \subseteq Candidate
         /\ GateAllowed(candidates, request.scope) \subseteq Candidate
         /\ GateDenials(candidates, request.scope) \subseteq Candidate
<1>1. AllCandidates(candidates) \subseteq Candidate
  BY DEF TypeOK, AllCandidates
<1> QED
  BY <1>1 DEF GateAllowed, GateDenials

LEMMA DecideTypeInv == TypeInv /\ DecideStep => TypeInv'
<1> SUFFICES ASSUME TypeInv, DecideStep PROVE TypeInv'
  OBVIOUS
<1> USE DEF TypeInv, TypeOK
<1>1. CASE PlannerNode
  BY <1>1 DEF PlannerNode, registryVars, routeVars, gateVars, runVars,
              reportVars, RegistryInv, Idle, Deciding, Nodes
<1>2. CASE RouterNode
  <2>1. plan \in Seq(Subtask)
    <3>1. <<>> \in Seq(Subtask)
      OBVIOUS
    <3> QED
      BY <3>1, PlansTyped
  <2>2. /\ DOMAIN candidates' \subseteq Ids
        /\ candidates' \in [DOMAIN candidates' -> SUBSET Candidate]
        /\ unroutable' \subseteq Ids
    BY <1>2, <2>1, RouteType DEF RouterNode
  <2> QED
    BY <1>2, <2>2
       DEF RouterNode, registryVars, planVars, gateVars, runVars, reportVars,
           RegistryInv, Idle, Deciding, Nodes
<1>3. CASE PermissionGateNode
  <2>1. allowed' \subseteq Candidate /\ allDenials' \subseteq Candidate
    BY <1>3, GateType DEF PermissionGateNode
  <2>2. /\ pendingDenials' \subseteq Candidate
        /\ replans' \in 0..MAX_REPLANS
        /\ node' \in {"planner", "executor"}
    BY <1>3, GateType DEF PermissionGateNode, ShouldReplan, MAX_REPLANS
  <2>3. running' \subseteq allowed'
    BY <1>3 DEF PermissionGateNode, runVars, Idle, Deciding
  <2> QED
    BY <1>3, <2>1, <2>2, <2>3
       DEF PermissionGateNode, registryVars, routeVars, runVars, reportVars,
           RegistryInv, Idle, Deciding, Nodes
<1> QED
  BY <1>1, <1>2, <1>3 DEF DecideStep

(* The results a call can come back with are well formed.                  *)
LEMMA ResultType ==
  ASSUME NEW c \in Candidate
  PROVE  /\ Failure(c) \in ToolResult
         /\ \A d \in Data, t \in ObservedAt : Success(c, d, t) \in ToolResult
  BY ObservedAtTyped DEF Failure, Success, ToolResult

LEMMA ExecuteTypeInv == TypeInv /\ ExecuteStep => TypeInv'
<1> SUFFICES ASSUME TypeInv, ExecuteStep PROVE TypeInv'
  OBVIOUS
<1> USE DEF TypeInv, TypeOK
<1>1. CASE StartBatch
  <2>1. Runnable \subseteq Ids
    BY DEF Runnable, Candidate
  <2>2. NextBatch(Deps, Remaining) \subseteq Ids
    BY <2>1 DEF NextBatch, ReadyIds, Remaining
  <2>3. batches' \in Seq(SUBSET Ids)
    BY <1>1, <2>2 DEF StartBatch
  <2> QED
    BY <1>1, <2>3
       DEF StartBatch, registryVars, planVars, routeVars, gateVars, reportVars,
           RegistryInv, Idle, Deciding
<1>2. ASSUME NEW c \in allowed, CallStep(c)
      PROVE  TypeInv'
  <2>1. c \in Candidate
    OBVIOUS
  <2>2. CASE InvokeTool(c)
    <3>1. tools[c.tool].manifest.scope \in Scopes
      BY <2>2 DEF InvokeTool, IsRegistry, Entry, Manifest
    <3>2. invocations' \subseteq Invocation
      BY <2>1, <2>2, <3>1 DEF InvokeTool, Invocation
    <3> QED
      BY <2>2, <3>2
         DEF InvokeTool, NextToStart, registryVars, planVars, routeVars,
             gateVars, reportVars, RegistryInv, Idle, Deciding
  <2>3. CASE InvokeMissing(c)
    BY <2>1, <2>3, ResultType
       DEF InvokeMissing, NextToStart, registryVars, planVars, routeVars,
           gateVars, reportVars, RegistryInv, Idle, Deciding
  <2>4. ASSUME NEW r \in ToolResult, Settle(c, r)
        PROVE  TypeInv'
    BY <2>4 DEF Settle, registryVars, planVars, routeVars, gateVars, reportVars,
                RegistryInv, Idle, Deciding
  <2>5. CASE ToolSucceeds(c) \/ ToolFails(c)
    BY <2>1, <2>4, <2>5, ResultType DEF ToolSucceeds, ToolFails
  <2>6. CASE CancellationEscapes(c) \/ OrphanEnds(c)
    BY <2>6
       DEF CancellationEscapes, OrphanEnds, registryVars, planVars, routeVars,
           gateVars, reportVars, RegistryInv, Idle, Deciding, Nodes
  <2> QED
    BY <1>2, <2>2, <2>3, <2>5, <2>6 DEF CallStep
<1>3. CASE FinishExecutor
  BY <1>3 DEF FinishExecutor, registryVars, planVars, routeVars, gateVars,
              runVars, reportVars, RegistryInv, Idle, Deciding, Nodes
<1> QED
  BY <1>1, <1>2, <1>3 DEF ExecuteStep

LEMMA ReportTypeInv == TypeInv /\ ReportStep => TypeInv'
<1> SUFFICES ASSUME TypeInv, ReportStep PROVE TypeInv'
  OBVIOUS
<1> USE DEF TypeInv, TypeOK
<1>1. \A r \in results : r.call.id \in Ids /\ r.call.tool \in Tools
  BY DEF ToolResult, Candidate
<1>2. CASE CheckConflictsNode
  <2>1. conflicts' \subseteq Ids
    BY <1>1, <1>2 DEF CheckConflictsNode, DetectConflicts
  <2> QED
    BY <1>2, <2>1
       DEF CheckConflictsNode, registryVars, planVars, routeVars, gateVars,
           runVars, RegistryInv, Idle, Deciding, Nodes
<1>3. CASE ResolveByRule
  <2>1. \A id : RuleWinner(id) \subseteq results
    BY DEF RuleWinner, PriorityWinner, FreshestWinner, FirstMax, Successes
  <2>2. request.policy \in {"priority", "freshest"}
    BY <1>3, RequestsTyped DEF ResolveByRule, Request, Policies
  <2>3. resolutions' \subseteq Resolution
    BY <1>1, <1>3, <2>1, <2>2 DEF ResolveByRule, Resolution
  <2> QED
    BY <1>3, <2>3
       DEF ResolveByRule, registryVars, planVars, routeVars, gateVars, runVars,
           RegistryInv, Idle, Deciding, Nodes
<1>4. ASSUME NEW id \in conflicts, NEW tool \in Tools,
             NEW via \in {"choice", "fallback"}, Resolve(id, tool, via)
      PROVE  TypeInv'
  <2>1. resolutions' \subseteq Resolution
    BY <1>4 DEF Resolve, Resolution
  <2> QED
    BY <1>4, <2>1
       DEF Resolve, registryVars, planVars, routeVars, gateVars, runVars,
           RegistryInv, Idle, Deciding, Nodes
<1>5. ASSUME NEW id \in conflicts, ModelChooses(id) \/ FallBackToPriority(id)
      PROVE  TypeInv'
  BY <1>1, <1>4, <1>5
     DEF ModelChooses, FallBackToPriority, PriorityWinner, FirstMax, Successes
<1>6. ASSUME NEW outcome \in {"prose", "digest"}, AggregatorNode(outcome)
      PROVE  TypeInv'
  BY <1>6 DEF AggregatorNode, registryVars, planVars, routeVars, gateVars,
              runVars, RegistryInv, Idle, Deciding, Nodes
<1> QED
  BY <1>2, <1>3, <1>5, <1>6 DEF ReportStep

LEMMA StepTypeInv == TypeInv /\ [Next]_vars => TypeInv'
<1> SUFFICES ASSUME TypeInv, [Next]_vars PROVE TypeInv'
  OBVIOUS
<1>1. CASE ModelRaises
  BY <1>1 DEF ModelRaises, registryVars, planVars, routeVars, gateVars, runVars,
              reportVars, TypeInv, TypeOK, RegistryInv, Idle, Deciding, Nodes
<1>2. CASE UNCHANGED vars
  BY <1>2 DEF vars, registryVars, planVars, routeVars, gateVars, runVars,
              reportVars, TypeInv, TypeOK, RegistryInv, Idle, Deciding
<1> QED
  BY <1>1, <1>2, EditTypeInv, DecideTypeInv, ExecuteTypeInv, ReportTypeInv
     DEF Next, GraphStep, Returned

(* Every variable keeps its type: the registry stays well formed, replans  *)
(* stay within MAX_REPLANS, only allowed calls run.                        *)
THEOREM TypeCorrect == Spec => []TypeOK
<1>1. TypeInv => TypeOK
  BY DEF TypeInv
<1> QED
  BY <1>1, InitTypeInv, StepTypeInv, PTL DEF Spec

-----------------------------------------------------------------------------
(* Permissions.  A candidate carries the scope of a manifest its tool was  *)
(* registered by; so does an invocation, of the manifest it found.         *)

ScopeOf(tool, scope) == \E m \in Manifests[tool] : m.scope = scope

GrantedInv == /\ Started \subseteq allowed
              /\ \A c \in allowed : c.scope \in request.scope
              /\ \A d \in allDenials : d.scope \notin request.scope

OriginInv ==
  /\ \A c \in AllCandidates(candidates) \cup allowed \cup allDenials :
       ScopeOf(c.tool, c.scope)
  /\ \A i \in invocations : ScopeOf(i.call.tool, i.scope)

PermissionInv == GrantedInv /\ OriginInv

(* What the router captures next to a call is the scope of a registered    *)
(* manifest.                                                               *)
LEMMA RouteOrigin ==
  ASSUME TypeInv, NEW mode,
         NEW c \in AllCandidates(RouteCandidates(plan, tools, mode))
  PROVE  ScopeOf(c.tool, c.scope)
<1> DEFINE routable == Routable(plan, tools)
           routed == RouteCandidates(plan, tools, mode)
           last(id) == LastWithId(plan, routable, id)
<1>1. PICK id \in DOMAIN routed : c \in routed[id]
  BY DEF AllCandidates
<1>2. routed[id] = UNION {CandidatesFor(plan[i], tools, mode) : i \in last(id)}
  BY DEF RouteCandidates
<1>3. PICK i \in last(id) : c \in CandidatesFor(plan[i], tools, mode)
  <2> HIDE DEF routed, last
  <2> QED
    BY <1>1, <1>2
<1>4. c.tool \in DOMAIN tools /\ c.scope = tools[c.tool].manifest.scope
  BY <1>3 DEF CandidatesFor, Chosen, Offers
<1> QED
  BY <1>4 DEF ScopeOf, TypeInv, RegistryInv

LEMMA StepPermissionInv ==
  TypeInv /\ PermissionInv /\ [Next]_vars => PermissionInv'
<1> SUFFICES ASSUME TypeInv, PermissionInv, [Next]_vars PROVE PermissionInv'
  OBVIOUS
<1> USE DEF PermissionInv, GrantedInv, OriginInv
<1>1. CASE RouterNode
  BY <1>1, RouteOrigin
     DEF RouterNode, gateVars, runVars, Started
<1>2. CASE PermissionGateNode
  <2>1. Started = {} /\ invocations' = {}
    BY <1>2 DEF PermissionGateNode, runVars, Started, TypeInv, Idle, Deciding
  <2>2. /\ allowed' = GateAllowed(candidates, request.scope)
        /\ allDenials' = allDenials \cup GateDenials(candidates, request.scope)
        /\ candidates' = candidates /\ request' = request
    BY <1>2 DEF PermissionGateNode, routeVars
  <2>3. GrantedInv'
    BY <2>1, <2>2 DEF GateAllowed, GateDenials, Started
  <2>4. OriginInv'
    BY <2>1, <2>2 DEF GateAllowed, GateDenials
  <2> QED
    BY <2>3, <2>4
<1>3. ASSUME NEW c \in allowed, InvokeTool(c)
      PROVE  PermissionInv'
  <2> DEFINE i == [call |-> c, scope |-> tools[c.tool].manifest.scope]
  <2>1. invocations' = invocations \cup {i} /\ c.tool \in DOMAIN tools
    BY <1>3 DEF InvokeTool
  <2>2. ScopeOf(i.call.tool, i.scope)
    BY <2>1 DEF ScopeOf, TypeInv, RegistryInv
  <2>3. Started' \subseteq allowed
    BY <2>1 DEF Started
  <2> QED
    BY <1>3, <2>1, <2>2, <2>3 DEF InvokeTool, gateVars, routeVars
<1>4. CASE UNCHANGED <<request, invocations, routeVars, gateVars>>
  BY <1>4 DEF routeVars, gateVars, Started
<1>5. CASE EditStep
  BY <1>4, <1>5 DEF EditStep, RegisterTool, UnregisterTool, runVars
<1>6. CASE PlannerNode \/ ModelRaises \/ UNCHANGED vars
  BY <1>4, <1>6 DEF PlannerNode, ModelRaises, vars, runVars
<1>7. CASE StartBatch \/ FinishExecutor
  BY <1>4, <1>7 DEF StartBatch, FinishExecutor, runVars
<1>8. ASSUME NEW c \in allowed, CallStep(c), ~InvokeTool(c)
      PROVE  PermissionInv'
  BY <1>4, <1>8 DEF CallStep, InvokeMissing, ToolSucceeds, ToolFails, Settle,
                    CancellationEscapes, OrphanEnds
<1>9. CASE ReportStep
  BY <1>4, <1>9
     DEF ReportStep, CheckConflictsNode, ResolveByRule, ModelChooses,
         FallBackToPriority, Resolve, AggregatorNode, runVars
<1> QED
  BY <1>1, <1>2, <1>3, <1>5, <1>6, <1>7, <1>8, <1>9
     DEF Next, GraphStep, DecideStep, ExecuteStep, Returned

LEMMA InitPermissionInv == Init => PermissionInv
  BY DEF Init, PermissionInv, GrantedInv, OriginInv, Started, AllCandidates

LEMMA PermissionInvariant == Spec => [](TypeInv /\ PermissionInv)
  BY InitTypeInv, InitPermissionInv, StepTypeInv, StepPermissionInv, PTL DEF Spec

(* No tool starts before the gate's last word, for a call the gate dropped *)
(* or for one whose captured tool was out of scope: under any plan, any    *)
(* replan and any registry edits.                                          *)
THEOREM GatedCallsOnly == Spec => []OnlyGatedCallsStart
<1>1. TypeInv /\ PermissionInv => OnlyGatedCallsStart
  BY DEF TypeInv, PermissionInv, GrantedInv, Idle, Deciding, Started,
         OnlyGatedCallsStart
<1> QED
  BY <1>1, PermissionInvariant, PTL

(* The gate's check of the captured tool is a check of the tool that runs, *)
(* provided no name is ever registered under two scopes.                   *)
THEOREM StableScopesHold ==
  ASSUME StableScopes
  PROVE  Spec => []ScopeHeldAtInvocation
<1>1. TypeInv /\ PermissionInv => ScopeHeldAtInvocation
  <2> SUFFICES ASSUME TypeInv, PermissionInv, NEW i \in invocations
               PROVE  i.scope \in request.scope
    BY DEF ScopeHeldAtInvocation
  <2>1. i.call \in allowed /\ i.call.tool \in Tools
    BY DEF PermissionInv, GrantedInv, Started, TypeInv, TypeOK, Candidate
  <2>2. ScopeOf(i.call.tool, i.scope) /\ ScopeOf(i.call.tool, i.call.scope)
    BY <2>1 DEF PermissionInv, OriginInv
  <2>3. i.scope = i.call.scope
    BY <2>1, <2>2, StableScopes DEF ScopeOf, StableScopes
  <2> QED
    BY <2>1, <2>3 DEF PermissionInv, GrantedInv
<1> QED
  BY <1>1, PermissionInvariant, PTL

(* On the same condition, a tool denied in either round never runs.        *)
THEOREM DeniedToolsStayOut ==
  ASSUME StableScopes
  PROVE  Spec => []DeniedToolNeverRuns
<1>1. TypeInv /\ PermissionInv => DeniedToolNeverRuns
  <2> SUFFICES ASSUME TypeInv, PermissionInv, NEW d \in allDenials,
                      NEW c \in Started, c.tool = d.tool
               PROVE  FALSE
    BY DEF DeniedToolNeverRuns
  <2>1. c \in allowed /\ c.tool \in Tools
    BY DEF PermissionInv, GrantedInv, TypeInv, TypeOK, Candidate
  <2>2. ScopeOf(c.tool, c.scope) /\ ScopeOf(c.tool, d.scope)
    BY <2>1 DEF PermissionInv, OriginInv
  <2>3. c.scope = d.scope
    BY <2>1, <2>2, StableScopes DEF ScopeOf, StableScopes
  <2> QED
    BY <2>1, <2>3 DEF PermissionInv, GrantedInv
<1> QED
  BY <1>1, PermissionInvariant, PTL

-----------------------------------------------------------------------------
(* Execution.  While the executor works, the allowed calls are those of    *)
(* finished batches, all settled; those of the batch begun last, waiting,  *)
(* running or settled; and those of the subtasks no batch has taken.       *)

CallInv ==
  /\ Settled \subseteq allowed
  /\ running \cap Settled = {}
  /\ \A r, q \in results : r.call = q.call => r = q
  /\ \A c \in running \cup Settled : c.id \in Taken
  /\ node # "raised" => Started \subseteq running \cup Settled

EarlierSettled ==
  \A k \in DOMAIN batches : k < Len(batches) =>
    \A c \in allowed : c.id \in batches[k] => c \in Settled

OrderInv ==
  \A k \in DOMAIN batches : \A id \in batches[k] \ Stuck(Deps) :
    \A e \in Deps[id] : \E j \in 1..k - 1 : e \in batches[j]

ExecutionInv == CallInv /\ EarlierSettled /\ OrderInv /\ EveryAllowedCallSettles

(* One round of the batching: a batch is a part of what is left, and a     *)
(* node in it that no cycle holds up has nothing left to wait for.         *)
LEMMA NextBatchOrder ==
  ASSUME NEW deps, NEW remaining, remaining \subseteq DOMAIN deps,
         \A id \in DOMAIN deps : deps[id] \subseteq DOMAIN deps
  PROVE  /\ NextBatch(deps, remaining) \subseteq remaining
         /\ \A id \in NextBatch(deps, remaining) \ Stuck(deps) :
              deps[id] \cap remaining = {}
<1>1. NextBatch(deps, remaining) \subseteq remaining
  BY DEF NextBatch, ReadyIds
<1>2. CASE ReadyIds(deps, remaining) = {}
  <2>1. \A id \in remaining : deps[id] \cap remaining # {}
    BY <1>2 DEF ReadyIds
  <2>2. remaining \subseteq Stuck(deps)
    BY <2>1 DEF Stuck
  <2> QED
    BY <1>1, <2>2
<1>3. CASE ReadyIds(deps, remaining) # {}
  BY <1>1, <1>3 DEF NextBatch, ReadyIds
<1> QED
  BY <1>1, <1>2, <1>3

LEMMA DepsType ==
  /\ DOMAIN Deps = Runnable
  /\ \A id \in Runnable : Deps[id] \subseteq Runnable
  BY DEF Deps

(* A step that leaves nothing begun, and one that leaves the execution as  *)
(* it is and does not claim that it has ended.                             *)
LEMMA NothingBegun ==
  ASSUME batches' = <<>>, running' = {}, results' = {}, invocations' = {},
         node' \notin {"check_conflicts", "resolver", "aggregator", "end"}
  PROVE  ExecutionInv'
  BY DEF ExecutionInv, CallInv, EarlierSettled, OrderInv, Settled, Started,
         EveryAllowedCallSettles, PastExecutor

LEMMA ExecutionFrame ==
  ASSUME ExecutionInv, UNCHANGED <<plan, allowed, runVars>>,
         PastExecutor' => PastExecutor, node = "raised" => node' = "raised"
  PROVE  ExecutionInv'
<1>1. /\ Deps' = Deps /\ Taken' = Taken /\ Settled' = Settled
      /\ Started' = Started /\ running' = running /\ results' = results
      /\ batches' = batches /\ allowed' = allowed
  BY DEF runVars, Deps, Runnable, Taken, Settled, Started
<1>2. Stuck(Deps)' = Stuck(Deps)
  BY <1>1 DEF Stuck
<1> QED
  BY <1>1, <1>2 DEF ExecutionInv, CallInv, EarlierSettled, OrderInv,
                    EveryAllowedCallSettles

LEMMA StartBatchStep ==
  TypeInv /\ ExecutionInv /\ StartBatch => ExecutionInv'
<1> SUFFICES ASSUME TypeInv, ExecutionInv, StartBatch PROVE ExecutionInv'
  OBVIOUS
<1> DEFINE b == NextBatch(Deps, Remaining)
           n == Len(batches)
<1>0. n \in Nat
  BY DEF TypeInv, TypeOK
<1>1. batches \in Seq(SUBSET Ids) /\ n \in Nat /\ DOMAIN batches = 1..n
  BY DEF TypeInv, TypeOK
<1>2. /\ Deps' = Deps /\ allowed' = allowed /\ Settled' = Settled
      /\ running' = running /\ node' = node /\ Started' = Started
      /\ results' = results
  BY DEF StartBatch, planVars, gateVars, Deps, Runnable, Settled, Started
<1>3. /\ batches' = Append(batches, b)
      /\ DOMAIN batches' = 1..n + 1 /\ Len(batches') = n + 1
      /\ \A k \in 1..n : batches'[k] = batches[k]
      /\ batches'[n + 1] = b
  BY <1>1 DEF StartBatch
<1>4. Taken \subseteq Taken'
  BY <1>1, <1>3 DEF Taken
<1>5. CallInv'
  BY <1>2, <1>4 DEF ExecutionInv, CallInv
<1>6. EarlierSettled'
  <2> SUFFICES ASSUME NEW k \in 1..n, NEW c \in allowed, c.id \in batches[k]
               PROVE  c \in Settled
    BY <1>1, <1>2, <1>3 DEF EarlierSettled
  <2>1. CASE k < n
    BY <1>1, <2>1 DEF ExecutionInv, EarlierSettled
  <2>2. CASE k = n
    <3>1. batches # <<>>
      BY <1>1
    <3> QED
      BY <2>2, <3>1 DEF StartBatch, BatchSettled, BatchCalls
  <2>3. k < n \/ k = n
    BY <1>0
  <2> QED
    BY <2>1, <2>2, <2>3
<1>7. OrderInv'
  <2>0. Stuck(Deps)' = Stuck(Deps)
    BY <1>2 DEF Stuck
  <2> SUFFICES ASSUME NEW k \in 1..n + 1,
                      NEW id \in batches'[k], id \notin Stuck(Deps),
                      NEW e \in Deps[id]
               PROVE  \E j \in 1..k - 1 : e \in batches'[j]
    BY <1>2, <1>3, <2>0 DEF OrderInv
  <2>1. CASE k \in 1..n
    <3>1. PICK j \in 1..k - 1 : e \in batches[j]
      BY <1>1, <1>3, <2>1 DEF ExecutionInv, OrderInv
    <3>2. j \in 1..n
      BY <1>1, <2>1
    <3> QED
      BY <1>3, <3>1, <3>2
  <2>2. CASE k = n + 1
    <3>1. id \in b
      BY <1>3, <2>2
    <3>2. Deps[id] \cap Remaining = {} /\ id \in Runnable
      BY <3>1, DepsType, NextBatchOrder DEF Remaining
    <3>3. e \in Taken
      BY <3>2, DepsType DEF Remaining
    <3> QED
      BY <1>1, <1>3, <2>2, <3>3 DEF Taken
  <2> QED
    BY <1>1, <2>1, <2>2
<1>8. EveryAllowedCallSettles'
  BY <1>2 DEF StartBatch, EveryAllowedCallSettles, PastExecutor
<1> QED
  BY <1>5, <1>6, <1>7, <1>8 DEF ExecutionInv

(* The call whose turn it is belongs to the batch and has not been started *)
(* nor settled.                                                            *)
LEMMA TurnOfCall ==
  ASSUME TypeInv, NEW c, NextToStart(c)
  PROVE  /\ c \in allowed /\ c.id \in Taken
         /\ c \notin running /\ c \notin Settled /\ node = "executor"
<1>1. /\ batches # <<>> /\ c \in allowed /\ c.id \in batches[Len(batches)]
      /\ c \notin running /\ c \notin Settled /\ node = "executor"
  BY DEF NextToStart, Waiting, BatchCalls
<1>2. Len(batches) \in DOMAIN batches
  BY <1>1 DEF TypeInv, TypeOK
<1> QED
  BY <1>1, <1>2 DEF Taken

(* Whatever a call does, batches, plan and allowed calls stay as they are, *)
(* and what was settled stays settled.                                     *)
LEMMA CallFrame ==
  ASSUME ExecutionInv, UNCHANGED <<plan, allowed, batches>>,
         Settled \subseteq Settled', CallInv', ~PastExecutor'
  PROVE  ExecutionInv'
<1>1. Deps' = Deps /\ batches' = batches /\ allowed' = allowed
  BY DEF Deps, Runnable
<1>2. Stuck(Deps)' = Stuck(Deps)
  BY <1>1 DEF Stuck
<1> QED
  BY <1>1, <1>2 DEF ExecutionInv, EarlierSettled, OrderInv,
                    EveryAllowedCallSettles

LEMMA CallExecutionStep ==
  ASSUME TypeInv, ExecutionInv, NEW c \in allowed, CallStep(c)
  PROVE  ExecutionInv'
<1> USE DEF ExecutionInv, CallInv
<1>1. UNCHANGED <<plan, allowed, batches>> /\ Taken' = Taken
  BY DEF CallStep, InvokeTool, InvokeMissing, ToolSucceeds, ToolFails, Settle,
         CancellationEscapes, OrphanEnds, planVars, gateVars, Taken
<1>2. CASE InvokeTool(c)
  <2>1. c.id \in Taken /\ c \notin Settled /\ node = "executor"
    BY <1>2, TurnOfCall DEF InvokeTool
  <2>2. Started' = Started \cup {c} /\ Settled' = Settled
    <3> DEFINE i == [call |-> c, scope |-> tools[c.tool].manifest.scope]
    <3>1. /\ invocations' = invocations \cup {i} /\ i.call = c
          /\ results' = results
      BY <1>2 DEF InvokeTool
    <3> HIDE DEF i
    <3> QED
      BY <3>1 DEF Started, Settled
  <2>3. running' = running \cup {c} /\ results' = results /\ node' = node
    BY <1>2 DEF InvokeTool
  <2>4. CallInv'
    BY <1>1, <2>1, <2>2, <2>3
  <2> QED
    BY <1>1, <2>1, <2>2, <2>3, <2>4, CallFrame DEF PastExecutor
<1>3. ASSUME NEW r, r.call = c, results' = results \cup {r},
             running' = running \ {c}, c \notin Settled, c.id \in Taken,
             node = "executor", UNCHANGED <<node, invocations>>
      PROVE  ExecutionInv'
  <2>1. Settled' = Settled \cup {c} /\ Started' = Started
    BY <1>3 DEF Settled, Started
  <2>2. \A q \in results : q.call # c
    BY <1>3 DEF Settled
  <2>3. CallInv'
    BY <1>1, <1>3, <2>1, <2>2
  <2> QED
    BY <1>1, <1>3, <2>1, <2>3, CallFrame DEF PastExecutor
<1>4. CASE InvokeMissing(c)
  <2>1. /\ c.id \in Taken /\ c \notin Settled /\ c \notin running
        /\ node = "executor"
    BY <1>4, TurnOfCall DEF InvokeMissing
  <2>2. Failure(c).call = c
    BY DEF Failure
  <2> QED
    BY <1>3, <1>4, <2>1, <2>2 DEF InvokeMissing
<1>5. ASSUME NEW r, r.call = c, Settle(c, r)
      PROVE  ExecutionInv'
  BY <1>3, <1>5 DEF Settle
<1>6. CASE ToolSucceeds(c) \/ ToolFails(c)
  BY <1>5, <1>6 DEF ToolSucceeds, ToolFails, Success, Failure
<1>7. CASE CancellationEscapes(c) \/ OrphanEnds(c)
  <2>1. /\ running' = running \ {c} /\ node' = "raised"
        /\ UNCHANGED <<invocations, results>>
    BY <1>7 DEF CancellationEscapes, OrphanEnds
  <2>2. Settled' = Settled
    BY <2>1 DEF Settled
  <2>3. CallInv'
    BY <1>1, <2>1, <2>2
  <2> QED
    BY <1>1, <2>1, <2>2, <2>3, CallFrame DEF PastExecutor
<1> QED
  BY <1>2, <1>4, <1>6, <1>7 DEF CallStep

(* All batches are taken and the last one is settled: so is every call.    *)
LEMMA FinishStep ==
  ASSUME TypeInv, ExecutionInv, FinishExecutor
  PROVE  ExecutionInv'
<1>0. Len(batches) \in Nat
  BY DEF TypeInv, TypeOK
<1>1. DOMAIN batches = 1..Len(batches)
  BY DEF TypeInv, TypeOK
<1>2. ASSUME NEW c \in allowed
      PROVE  c \in Settled
  <2>1. PICK k \in DOMAIN batches : c.id \in batches[k]
    BY DEF FinishExecutor, Remaining, Runnable, Taken
  <2>2. CASE k < Len(batches)
    BY <2>1, <2>2 DEF ExecutionInv, EarlierSettled
  <2>3. CASE k = Len(batches)
    <3>1. batches # <<>>
      BY <2>1
    <3> QED
      BY <2>1, <2>3, <3>1 DEF FinishExecutor, BatchSettled, BatchCalls
  <2>4. k < Len(batches) \/ k = Len(batches)
    BY <1>0, <1>1, <2>1
  <2> QED
    BY <2>2, <2>3, <2>4
<1>3. Settled = allowed /\ running = {}
  BY <1>2 DEF ExecutionInv, CallInv, TypeInv, TypeOK
<1>4. /\ Deps' = Deps /\ Taken' = Taken /\ Settled' = Settled
      /\ Started' = Started /\ running' = running /\ results' = results
      /\ batches' = batches /\ allowed' = allowed
  BY DEF FinishExecutor, planVars, gateVars, runVars, Deps, Runnable, Taken,
         Settled, Started
<1>5. Stuck(Deps)' = Stuck(Deps)
  BY <1>4 DEF Stuck
<1> QED
  BY <1>3, <1>4, <1>5 DEF FinishExecutor, ExecutionInv, CallInv, EarlierSettled,
                          OrderInv, EveryAllowedCallSettles

LEMMA StepExecutionInv ==
  TypeInv /\ ExecutionInv /\ [Next]_vars => ExecutionInv'
<1> SUFFICES ASSUME TypeInv, ExecutionInv, [Next]_vars PROVE ExecutionInv'
  OBVIOUS
<1>1. CASE DecideStep
  <2>1. Deciding /\ UNCHANGED runVars
        /\ node' \in {"router", "permission_gate", "planner", "executor"}
    BY <1>1 DEF DecideStep, PlannerNode, RouterNode, PermissionGateNode, Deciding
  <2> QED
    BY <2>1, NothingBegun DEF TypeInv, Idle, runVars
<1>2. CASE StartBatch
  BY <1>2, StartBatchStep
<1>3. CASE FinishExecutor
  BY <1>3, FinishStep
<1>4. CASE \E c \in allowed : CallStep(c)
  BY <1>4, CallExecutionStep
<1>5. CASE ReportStep \/ ModelRaises
  <2>1. /\ UNCHANGED <<plan, allowed, runVars>>
        /\ PastExecutor' => PastExecutor
        /\ node # "raised"
    BY <1>5
       DEF ReportStep, CheckConflictsNode, ResolveByRule, ModelChooses,
           FallBackToPriority, Resolve, AggregatorNode, ModelRaises,
           planVars, gateVars, PastExecutor
  <2> QED
    BY <2>1, ExecutionFrame
<1>6. CASE EditStep \/ UNCHANGED vars
  <2>1. UNCHANGED <<plan, allowed, runVars, node>>
    BY <1>6 DEF EditStep, RegisterTool, UnregisterTool, vars, planVars, gateVars
  <2> QED
    BY <2>1, ExecutionFrame DEF PastExecutor
<1> QED
  BY <1>1, <1>2, <1>3, <1>4, <1>5, <1>6
     DEF Next, GraphStep, ExecuteStep, Returned

LEMMA InitExecutionInv == Init => ExecutionInv
  BY DEF Init, ExecutionInv, CallInv, EarlierSettled, OrderInv, Settled, Started,
         EveryAllowedCallSettles, PastExecutor

LEMMA ExecutionInvariant == Spec => [](TypeInv /\ ExecutionInv)
  BY InitTypeInv, InitExecutionInv, StepTypeInv, StepExecutionInv, PTL DEF Spec

(* When the executor is done each allowed call has exactly one result and  *)
(* no tool is left running, whatever the dependency graph.                 *)
THEOREM AllowedCallsSettle == Spec => []EveryAllowedCallSettles
<1>1. ExecutionInv => EveryAllowedCallSettles
  BY DEF ExecutionInv
<1> QED
  BY <1>1, ExecutionInvariant, PTL

(* A call starts only after every call of every subtask it depends on, for *)
(* all subtasks that no cycle holds up, in any dependency graph.           *)
THEOREM DependenciesFirst == Spec => []DependenciesSettleFirst
<1>1. TypeInv /\ ExecutionInv => DependenciesSettleFirst
  <2> SUFFICES ASSUME TypeInv, ExecutionInv,
                      NEW c \in running \cup Settled, c.id \notin Stuck(Deps),
                      NEW d \in allowed, d.id \in Deps[c.id]
               PROVE  d \in Settled
    BY DEF DependenciesSettleFirst
  <2>0. Len(batches) \in Nat
    BY DEF TypeInv, TypeOK
  <2>1. DOMAIN batches = 1..Len(batches)
    BY DEF TypeInv, TypeOK
  <2>2. PICK k \in DOMAIN batches : c.id \in batches[k]
    BY DEF ExecutionInv, CallInv, Taken
  <2>3. PICK j \in 1..k - 1 : d.id \in batches[j]
    BY <2>2 DEF ExecutionInv, OrderInv
  <2>4. j \in DOMAIN batches /\ j < Len(batches)
    BY <2>0, <2>1, <2>2
  <2> QED
    BY <2>3, <2>4 DEF ExecutionInv, EarlierSettled
<1> QED
  BY <1>1, ExecutionInvariant, PTL

-----------------------------------------------------------------------------
(* The run implements the contract.                                        *)

RunInv == TypeInv /\ ExecutionInv

(* Without a batch there is no call under way and none settled.            *)
LEMMA NoBatchNoCall ==
  ASSUME RunInv, batches = <<>>
  PROVE  running = {} /\ Settled = {}
<1>1. Taken = {}
  BY DEF Taken
<1> QED
  BY <1>1 DEF RunInv, ExecutionInv, CallInv

LEMMA DecideRefines ==
  ASSUME RunInv, DecideStep
  PROVE  [Contract!ContractNext]_Contract!cvars
<1>1. Deciding /\ Started = {} /\ Settled = {} /\ Started' = {} /\ Settled' = {}
  BY DEF RunInv, TypeInv, Idle, DecideStep, PlannerNode, RouterNode,
         PermissionGateNode, runVars, Started, Settled, Deciding
<1>2. Phase = "deciding" /\ Permitted = {}
  BY <1>1 DEF Phase, Permitted, Deciding
<1>3. CASE Deciding'
  <2>1. Phase' = "deciding" /\ Permitted' = {}
    BY <1>3 DEF Phase, Permitted, Deciding
  <2> QED
    BY <1>1, <1>2, <2>1 DEF Contract!cvars
<1>4. CASE ~Deciding'
  <2>1. PermissionGateNode /\ node' = "executor"
    BY <1>4 DEF DecideStep, PlannerNode, RouterNode, PermissionGateNode, Deciding
  <2>2. Phase' = "acting" /\ Permitted' = allowed'
    BY <2>1 DEF Phase, Permitted, Deciding
  <2>3. allowed' \subseteq Candidate
    BY <2>1, GateType DEF PermissionGateNode, RunInv, TypeInv
  <2> QED
    BY <1>1, <1>2, <2>2, <2>3 DEF Contract!ContractNext, Contract!Permit
<1> QED
  BY <1>3, <1>4

LEMMA CallRefines ==
  ASSUME RunInv, NEW c \in allowed, CallStep(c)
  PROVE  [Contract!ContractNext]_Contract!cvars
<1>1. allowed' = allowed /\ batches' = batches
  BY DEF CallStep, InvokeTool, InvokeMissing, ToolSucceeds, ToolFails, Settle,
         CancellationEscapes, OrphanEnds, gateVars
<1> DEFINE Acting == /\ Phase = "acting" /\ Phase' = "acting"
                     /\ Permitted = allowed /\ Permitted' = allowed
<1>2. ASSUME node = "executor", node' = node PROVE Acting
  BY <1>1, <1>2 DEF Phase, Permitted, Deciding
<1>3. CASE InvokeTool(c)
  <2>1. c \notin running /\ c \notin Settled /\ node = "executor"
    BY <1>3, TurnOfCall DEF InvokeTool, RunInv
  <2>2. Acting
    BY <1>2, <1>3, <2>1 DEF InvokeTool
  <2>3. c \notin Started
    BY <2>1 DEF RunInv, ExecutionInv, CallInv
  <2>4. Started' = Started \cup {c} /\ Settled' = Settled
    <3> DEFINE i == [call |-> c, scope |-> tools[c.tool].manifest.scope]
    <3>1. /\ invocations' = invocations \cup {i} /\ i.call = c
          /\ results' = results
      BY <1>3 DEF InvokeTool
    <3> HIDE DEF i
    <3> QED
      BY <3>1 DEF Started, Settled
  <2>5. Contract!Start(c)
    BY <2>1, <2>2, <2>3, <2>4 DEF Contract!Start
  <2> QED
    BY <2>2, <2>5 DEF Contract!ContractNext
<1>4. ASSUME NEW r, r.call = c, results' = results \cup {r}, c \notin Settled,
             node = "executor", UNCHANGED <<node, invocations>>
      PROVE  [Contract!ContractNext]_Contract!cvars
  <2>1. Settled' = Settled \cup {c} /\ Started' = Started
    BY <1>4 DEF Settled, Started
  <2>2. Acting
    BY <1>2, <1>4
  <2>3. Contract!SettleCall(c)
    BY <1>4, <2>1, <2>2 DEF Contract!SettleCall
  <2> QED
    BY <2>2, <2>3 DEF Contract!ContractNext
<1>5. CASE InvokeMissing(c)
  <2>1. c \notin Settled /\ node = "executor"
    BY <1>5, TurnOfCall DEF InvokeMissing, RunInv
  <2>2. Failure(c).call = c
    BY DEF Failure
  <2> QED
    BY <1>4, <1>5, <2>1, <2>2 DEF InvokeMissing
<1>6. CASE ToolSucceeds(c) \/ ToolFails(c)
  <2>1. ASSUME NEW r, r.call = c, Settle(c, r)
        PROVE  [Contract!ContractNext]_Contract!cvars
    BY <1>4, <2>1 DEF Settle, RunInv, ExecutionInv, CallInv
  <2> QED
    BY <1>6, <2>1 DEF ToolSucceeds, ToolFails, Success, Failure
<1>7. CASE CancellationEscapes(c) \/ OrphanEnds(c)
  <2>1. batches # <<>>
    BY <1>7, NoBatchNoCall DEF CancellationEscapes, OrphanEnds
  <2>2. /\ node \in {"executor", "raised"} /\ node' = "raised"
        /\ Started' = Started /\ Settled' = Settled
    BY <1>7 DEF CancellationEscapes, OrphanEnds, Started, Settled
  <2>3. /\ Phase \in {"acting", "aborted"} /\ Phase' = "aborted"
        /\ Permitted' = Permitted
    BY <1>1, <2>1, <2>2 DEF Phase, Permitted, Deciding
  <2> QED
    BY <2>2, <2>3 DEF Contract!ContractNext, Contract!Abort, Contract!cvars
<1> QED
  BY <1>3, <1>5, <1>6, <1>7 DEF CallStep

LEMMA ReportRefines ==
  ASSUME RunInv, ReportStep
  PROVE  [Contract!ContractNext]_Contract!cvars
<1>1. UNCHANGED <<allowed, batches, results, invocations>>
  BY DEF ReportStep, CheckConflictsNode, ResolveByRule, ModelChooses,
         FallBackToPriority, Resolve, AggregatorNode, gateVars, runVars
<1>2. /\ node \in {"check_conflicts", "resolver", "aggregator"}
      /\ node' \in {"resolver", "aggregator", "end"}
  BY DEF ReportStep, CheckConflictsNode, ResolveByRule, ModelChooses,
         FallBackToPriority, Resolve, AggregatorNode
<1>3. /\ Phase = "reporting" /\ Phase' \in {"reporting", "closed"}
      /\ Permitted' = Permitted /\ Started' = Started /\ Settled' = Settled
  BY <1>1, <1>2 DEF Phase, Permitted, Deciding, Started, Settled
<1> QED
  BY <1>3 DEF Contract!ContractNext, Contract!Close, Contract!cvars

LEMMA RaiseRefines ==
  ASSUME RunInv, ModelRaises
  PROVE  [Contract!ContractNext]_Contract!cvars
<1>1. /\ node \in {"planner", "resolver", "aggregator"} /\ node' = "raised"
      /\ UNCHANGED <<allowed, batches, results, invocations>>
  BY DEF ModelRaises, gateVars, runVars
<1>2. Permitted' = Permitted
  <2>1. CASE node = "planner"
    BY <1>1, <2>1 DEF Permitted, Deciding, RunInv, TypeInv, Idle
  <2>2. CASE node # "planner"
    <3>1. Permitted = allowed /\ Settled = allowed
      BY <1>1, <2>2 DEF Permitted, Deciding, RunInv, ExecutionInv,
                        EveryAllowedCallSettles, PastExecutor
    <3>2. batches = <<>> => allowed = {}
      BY <3>1, NoBatchNoCall
    <3> QED
      BY <1>1, <3>1, <3>2 DEF Permitted, Deciding
  <2> QED
    BY <2>1, <2>2
<1>3. /\ Phase \in {"deciding", "reporting"} /\ Phase' = "aborted"
      /\ Started' = Started /\ Settled' = Settled
  BY <1>1 DEF Phase, Deciding, Started, Settled
<1> QED
  BY <1>2, <1>3 DEF Contract!ContractNext, Contract!Abort

LEMMA FinishRefines ==
  ASSUME RunInv, RunInv', FinishExecutor
  PROVE  [Contract!ContractNext]_Contract!cvars
<1>1. /\ node = "executor" /\ node' = "check_conflicts"
      /\ UNCHANGED <<allowed, batches, results, invocations>>
  BY DEF FinishExecutor, gateVars, runVars
<1>2. /\ Phase = "acting" /\ Phase' = "reporting"
      /\ Permitted = allowed /\ Permitted' = allowed
      /\ Started' = Started /\ Settled' = Settled
  BY <1>1 DEF Phase, Permitted, Deciding, Started, Settled
<1>3. Settled = allowed
  BY <1>1, <1>2 DEF RunInv, ExecutionInv, EveryAllowedCallSettles, PastExecutor
<1> QED
  BY <1>2, <1>3 DEF Contract!ContractNext, Contract!Report

(* A run's calls are fixed before the first of them starts, none starts    *)
(* twice, each settles once, and the report waits for all of them: every   *)
(* behaviour of the orchestrator is one of the contract.                   *)
THEOREM RunsKeepTheContract == Spec => ImplementsContract
<1>1. Init => Contract!ContractInit
  BY DEF Init, Contract!ContractInit, Phase, Permitted, Deciding, Started, Settled
<1>2. RunInv /\ RunInv' /\ [Next]_vars =>
        [Contract!ContractNext]_Contract!cvars
  <2> SUFFICES ASSUME RunInv, RunInv', [Next]_vars
               PROVE  [Contract!ContractNext]_Contract!cvars
    OBVIOUS
  <2>1. ASSUME UNCHANGED <<node, allowed, batches, results, invocations>>
        PROVE  [Contract!ContractNext]_Contract!cvars
    <3>1. /\ Phase' = Phase /\ Permitted' = Permitted
          /\ Started' = Started /\ Settled' = Settled
      BY <2>1 DEF Phase, Permitted, Deciding, Started, Settled
    <3> QED
      BY <3>1 DEF Contract!cvars
  <2>2. CASE EditStep \/ UNCHANGED vars
    BY <2>1, <2>2 DEF EditStep, RegisterTool, UnregisterTool, vars, gateVars,
                      runVars
  <2>3. CASE StartBatch
    <3>1. /\ node = "executor" /\ node' = node
          /\ UNCHANGED <<allowed, results, invocations>>
      BY <2>3 DEF StartBatch, gateVars
    <3>2. /\ Phase' = Phase /\ Permitted' = Permitted
          /\ Started' = Started /\ Settled' = Settled
      BY <3>1 DEF Phase, Permitted, Deciding, Started, Settled
    <3> QED
      BY <3>2 DEF Contract!cvars
  <2> QED
    BY <2>2, <2>3, DecideRefines, CallRefines, ReportRefines, RaiseRefines,
       FinishRefines DEF Next, GraphStep, ExecuteStep, Returned
<1>3. Spec => []RunInv
  BY ExecutionInvariant, PTL DEF RunInv
<1> QED
  BY <1>1, <1>2, <1>3, PTL DEF Spec, ImplementsContract, Contract!ContractSpec
=============================================================================
