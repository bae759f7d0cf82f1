# Verification of the multi-tool orchestrator

TLA+ models, TLC runs and TLAPS proofs for the program in `src/src/orchestrator`: an agent
that has a language model decompose a request into capability-tagged subtasks, routes them
to whatever tools are registered, filters the calls by permission scope, runs them in
dependency batches, resolves disagreeing results and writes a report.

## 1. Inventory

| part | state it keeps | operations | talks to |
|---|---|---|---|
| registry (`registry.py`) | dict name -> manifest and function, process-wide or private | `register`, `tool_def`, `unregister`, `get`, `find_by_capability`, `capability_catalog` | everyone; other callers of the process change it while a run is under way |
| planner (`planner.py`) | none | `build_system_prompt`, `plan` | registry (catalog), model client, from a worker thread |
| router (`router.py`) | none | `route` | registry; its output carries the `RegisteredTool` objects it found |
| gate (`permissions.py`) | none | `gate`, `fully_denied_subtasks` | works on the router's output |
| executor (`executor.py`) | results and reports of a run | `_topo_batches`, `_invoke`, `_run_batch`, `run` | registry (a second look-up by name), tools, event loop |
| resolver (`resolver.py`) | none | `detect_conflicts`, `resolve` under three policies | registry (priorities), model client |
| graph (`graph.py`) | `OrchestratorState` | seven nodes, two conditional edges, the digest | all of the above, LangGraph |
| model client (`llm.py`) | none | `complete_text`, `complete_json` with its repair loop | Ollama over HTTP |
| tools (`tools/`) | note files, a sandbox directory | nine coroutines | executor, event loop |
| CLI, config, data model | trace files | argument parsing, printing | graph |

What is hard about it: the registry changes during a run, and is read at four different
moments (catalog, routing, invocation, resolution), one of them an iteration in another
thread; the calls of a batch start, finish, fail, time out and vanish in any order, on one
event loop that any of them may block; the plan is whatever a model writes, with cyclic
or dangling dependencies and repeated ids; the replan runs the first three nodes twice over
state that partly accumulates and partly is replaced; each await on the model may return,
fail in a way the node catches, or fail in a way it does not, and a bad reply is asked about
again.

What makes each part correct:

* registry: replacing keeps a tool's place; equal priorities have one stable order; the
  catalog shows the registry as it is, under edits as well as the dict allows.
* planner, model client: each planning call ends; a bad reply is asked about a bounded
  number of times, with that reply quoted and no other.
* router and gate: a call is made only if the gate let it through, in the final round; a
  subtask left without a call is put to the planner once more, with its denials; nothing
  denied is run later on.
* executor: dependencies first unless there is a cycle, one result per call, nothing left
  running, no graph that hangs the loop, one tool's end is no other's; a time-out is earned,
  late by no more than others blocked, and leaves no effect; the report adds up.
* resolver: each conflict gets one winner, which is a successful candidate of it.
* graph: the run ends; the digest says one thing per subtask, something about every
  subtask, and only what the tools returned.

`PROJECT.json` lists the hazards at their lines, with the property that covers each.

## 2. Modules

```
               +- Router <- PermissionGate <- Resolver -+
ToolRegistry <-+                             Batching --+- Orchestrator <- OrchestratorProperties <- MCOrchestrator
               |                                ^                                |       ^
               |                            TopoBatches <- MCTopoBatches    RunContract  OrchestratorProofs <- ReportProofs
               |                                ^
               |                            TopoBatchesProofs
               +- Catalog ---+
                 JsonRepair -+- Planning <- MCPlanning, PlanningProofs

TimedTools <- BatchTiming <- MCBatchTiming, BatchTimingProofs <- BatchReportProofs
                   |                                                    |
              BatchContract                                         SumLemmas
```

(`RegistryLemmas`, on `ToolRegistry`, is used by both `OrchestratorProofs` and
`PlanningProofs`.)

### The request

* **ToolRegistry** - the registry as a value: a function from the registered names to
  manifest and insertion number, with `Register`, `Unregister` and the order of
  `find_by_capability` (`Precedes`, `Rank`).
* **Router**, **PermissionGate**, **Resolver** - the pure parts, as operators over plans,
  candidates and results. A candidate is a `ToolCall` together with the scope of the
  `RegisteredTool` captured next to it and its place in the list. Dicts filled in plan
  order keep the last subtask of an id (`LastWithId`).
* **Batching**, **TopoBatches** - one round of `_topo_batches`, and the loop by itself.
* **Orchestrator** - the machine. `node` says where the graph is; the other variables are
  the fields of `OrchestratorState`, the live registry (`tools`), and the executor's local
  state (`batches`, `running`). Actions: `PlannerNode`, `RouterNode`, `PermissionGateNode`
  (with the edge it takes), `StartBatch`, `InvokeTool`, `InvokeMissing`, `ToolSucceeds`,
  `ToolFails`, `CancellationEscapes`, `OrphanEnds`, `FinishExecutor`,
  `CheckConflictsNode`, `ResolveByRule`, `ModelChooses`, `FallBackToPriority`,
  `AggregatorNode`, `ModelRaises`; and, for other users of the registry, `RegisterTool`
  and `UnregisterTool`, enabled between any two steps of the run.
* **OrchestratorProperties** - what the machine has to satisfy; **RunContract** - the
  abstract promise about tool calls it implements.

How the code's steps map to actions. A node that awaits nothing is one action. The planner
node reads its inputs before the await and writes after it, and the model may answer
anything, so it is one action here and taken apart in `Planning`; the aggregator is one as
well, since its digest is made before the await from state no one else writes. The executor
is cut at every point where another coroutine can run: each call is invoked by a step of its
own and comes back by another. `_run_batch` invokes in the order of `batch_calls`; the
sequential mode waits for each. In parallel mode `gather` makes every `_invoke` a task, and on
Python 3.11, which `.python-version` pins, `wait_for` queues the tool's coroutine as one more
task behind them: all calls of a batch have begun before the first tool's body runs, even
that of a tool that never awaits (`BodiesRun`). Only a call that the function refuses, with a
`TypeError` for its arguments, comes back earlier. (Between two beginnings of one batch the model
lets callers edit the registry; on one event loop only another thread could.) The adjudicator resolves one conflict per
step, in the order of the conflict list. `batches` records a batch when it begins, where the
code lists its report when it ends. `invocations` is a history variable: the scope of the
tool that was really started.

### The planner

* **Catalog** - the registry as CPython's dict: entries in slots, holes where one was
  removed, a resize that moves entries together when an insertion finds no room. On it,
  `register`'s and `unregister`'s statements, the value iterator with the two ways it raises,
  and the loop body of `capability_catalog` (`Listed`).
* **JsonRepair** - `complete_json`: the budget, what each prompt quotes, and what a reply
  (valid, invalid, a transport failure, another exception) makes of the call.
* **Planning** - `run_orchestrator`'s choice of a registry (`EnterRun`), then the planner's
  thread: `BeginCatalog`, `ListTool` once per tool, `CatalogBreaks` or `CatalogDone`, and
  `AskModel` once per attempt; `Replan` and `GoOn` are the gate's edge. Between any two of
  them callers may `register`, call `weather_c.register` or `unregister`, on the private or
  the process-wide registry. The thread and the event loop share no lock; a step of the
  iteration is one bytecode under the interpreter lock, hence one action. `past`, `grew`
  and `shrank` are histories of what the registry held during the call.

### The batch

* **TimedTools** - what a tool does to the event loop: how long it blocks before and after
  its await, how long it sleeps, what it gives, its `timeout_s` and whether it writes a note;
  and the nine bundled tools in these terms.
* **BatchTiming** - `_run_batch` on asyncio's event loop: its queue of callbacks, the
  round it is in, its timers and the clock. `InvokeRefused` is a call that never becomes a
  coroutine: an unknown name, or arguments the function does not take (the `TypeError` comes
  before `wait_for` has set a time-out). `Invoke`, `ReleaseWaiter`, `CancelTask` and
  `Collect` are `_invoke` and the `wait_for` in it; `RunToSleep`, `RunToYield`, `RunToEnd`,
  `Alarm`, `WakeToEnd` and `WakeCancelled` the tool's task; `Report` makes the `BatchReport`.
  A callback that blocks moves the clock, which is how a tool delays its siblings'
  time-outs. What the code between the tools takes is `Overhead` at most in one batch, and is
  part of the wall time only (`executor.py:111-116`). The loop and `wait_for` are those of Python 3.11, which `.python-version` pins
  (3.12 rewrote `wait_for`). Among timers of one moment the order is left open.
* **BatchContract** - what `Orchestrator` takes a batch to be: calls start in order, each
  once, one at a time if sequential; each settles once, at any moment; the report is last.
  Its actions are `InvokeTool`, `InvokeMissing`, the calls' ends and the end of a batch in
  `Orchestrator` without their data. `BatchTiming` implements it, which is why
  `Orchestrator` may leave time out.

Operators marked "Mutant of" are not part of the model: each is a wrong version of the
definition it precedes, and the property assigned to it in `PROJECT.json` fails with it.

Abstractions: payloads are compared for equality only; a result's error text and
rationales are left out, as are LangGraph, arguments and the wording of prompts; of the
replan prompt the forbidden capabilities are kept, of a repair prompt the replies it quotes,
of a note whether it was written: a notes call that fails (`mkdir`, `write_text`, a title that
is no string) has written none, a failure in the middle of a write is not modelled, and neither
is the file's name, under which a second note of that title and second replaces the first.
`Catalog.Listed` leaves out the merging of `param_schema`s. Durations are whole ticks of
50 ms, unrounded, and exist in `BatchTiming` only. Lists whose order does not matter are sets; where it does (candidates,
calls of a batch, conflicts) rank, id and batch give it. Denials are kept once where the
list may repeat them. A tool that catches `CancelledError`, a tool that never comes back, and
a `timeout_s` of zero or less are not modelled: no bundled tool has them.

## 3. Runs

| run | question | bounds |
|---|---|---|
| `request_flow` | permissions, replan, report, contract and termination with a changing registry | 3 tools, equal priorities, 4 plans (empty, one with an unknown capability, one with a dependency), 3 scopes, both modes, 2 edits |
| `dependency_graphs` | executor on every graph | 3 subtasks x all 512 graphs with self-loops, one repeated id, both modes |
| `conflicts` | resolution and digest | 3 providers of one subtask, or 2 of each of 2 subtasks; 2 payloads, 2 timestamps, 3 policies, 1 edit |
| `topo_batches` | `_topo_batches` against a declarative definition | all 65536 graphs on 4 nodes |
| `planning` | the catalog's walk under edits, and the repair loop | 3 tools, 4 pairs of registries (full, empty, with a hole, with room), 3 edits, 3 attempts, `FreshRoom` 2 |
| `batch_timing` | time-outs, blocking, notes and reports | all batches of up to 3 of 11 bundled and of 11 synthetic tools, both modes, overhead up to 1 tick |

`request_flow` has each name keep one scope, the condition under which the scope
properties hold (and are proved). Two edits allow a tool to leave and come back inside one
run, or one to rise in priority and another to leave; the code compares no more than two
readings of the registry anywhere. Three subtasks give every shape a Kahn round can meet
(chain, fork, join, cycle with a tail, self-loop); `topo_batches` adds the fourth node, a
cycle beside a chain. Three providers are the fewest for which the first pair agrees and a
later one does not.

In `planning` three edits are what it takes to change a dict under the iterator so that
its size is the same again and the entries have moved: a removal and an insertion that
resizes, or either of them twice. Three attempts are one more than the default, so that a
repair of a repair occurs. CPython leaves more room than 2 after a resize of these sizes; the
least is the hardest case, and the theorems hold for any. In `batch_timing` the synthetic
tools have a limit of 4 ticks and sleep below, at and above it, block before or after their
await or never await, are refused, or write a note; three calls let one block while another's
time-out and a third's end fall due. The bundled ones have the times of the source, the
calculator one quick and one long evaluation, the note writer one note and one failure. One
tick of overhead is enough to tell a wall time that has it from one that has not.

`dependency_graphs` and `request_flow` check `Returns` as liveness. Fairness is weak
fairness of the graph's own steps: the event loop runs whatever is ready, every tool call is
under `wait_for` with a time-out, the model client has a request time-out. `PlannerEnds` and
`BatchEnds` assume the same of their parts: weak fairness of `PlannerStep` (the worker
thread gets its turns, a request comes back) and of `BatchStep` (the loop runs, no tool
blocks for good). No fairness is assumed of registry edits, of the gate's choice, and none
that a particular call succeeds. `wait_for` relies on the tool giving way to cancellation;
`BatchTiming` has that in detail. Deadlock is checked everywhere; what is over may only
stutter.

What `planning` shows about the walk over the live dict: as long as callers only replace
tools, the catalog is exact. A tool that comes or goes during the walk makes it raise, and
with it the run (`CatalogBreaks`; `RuntimeError` is caught nowhere). If one leaves and one
comes before the iterator looks again, it goes on: the catalog may then show a tool that is
gone, and, if the insertion moved the entries together, leave out one that was there all
along or count a re-registered one twice.
`ListingFaithful` says exactly how far that goes.

What `batch_timing` shows about time-outs: no call is given up before its limit; a call is
late by no more than the blocking of the batch; a call whose sleep is over its limit is always
given up, but one whose task ended by the time `wait_for` looks is not, even past its limit.
A report's wall time is at least every call's duration and at most their sum (the estimate)
and the overhead; if no tool blocks both are exact up to the overhead. It is not at most the
estimate: the wall time is taken around the calls, so that a batch of a single call, a
sequential batch and a batch of unknown names each take a little longer than their calls do,
and their `speedup` (`manifests.py:117-121`) is a little below one, or 0.0 for unknown names
only once the wall time rounds above zero.

Six runs document where the code departs from its documentation; each is expected to be
violated, and `PROJECT.json` quotes the sentence at issue:

* `scope_drift` - the gate checks the tool the router captured, `_invoke` runs the one
  registered under the name later (`executor.py:44`).
* `replan_prompt` - the prompt forbids capabilities that are only partly denied
  (`graph.py:100`).
* `duplicate_ids` - with a repeated id a result is reported for the wrong capability
  (`router.py:49`).
* `fault_isolation` - a `CancelledError` leaves the boundary around a call and takes a batch
  mate with it (`executor.py:95`).
* `registered_winner` - after a failed adjudication an unregistered candidate can win by
  priority (`resolver.py:55`).
* `isolated_registry` - `registry or REGISTRY` takes an empty private registry for none
  (`graph.py:237`).

Also noticed, without a run: `manifests.py:143-146` describes `unroutable` as capabilities
where `router.py:45` stores subtask ids; `readme.html:332` still has the fallback take the
first candidate; the digest of a conflicted subtask leaves out its failed candidates;
the comment at `llm.py:25-28` counts "httpx's own timeout type" among the exceptions
that become an `LLMError`, but the tuple below it does not contain it; the docstring of `config.py` says every field can
be overridden by the environment, `max_json_attempts`, `notes_dir` and `data_dir` cannot.

## 4. Theorems

Every safety invariant, action property and refinement that a passing run checks is proved,
for every value of the constants, from the named assumptions of the modules only: types of
the constants; a manifest per name; `Tools` finite; initial insertion numbers below
`FirstStamp`; a natural number for the overhead; dicts whose entries lie below the first unused slot. Two of them,
`ScopeHeldAtInvocation` and `DeniedToolNeverRuns`, need `StableScopes` besides, as the run that
checks them has it.

`OrchestratorProofs`, for any plans, requests, registries and edit bound:

* `TypeCorrect` - the inductive invariant `TypeInv` adds to the types that the registry holds
  only manifests of its names, with distinct insertion numbers below the next one
  (without this a new registration could repeat a number), and that nothing has run before
  the gate's last word (`Idle`; without this the second round could change `allowed`
  under running calls).
* `GatedCallsOnly`, `StableScopesHold`, `DeniedToolsStayOut` - from `PermissionInv`: what
  started was allowed, what is allowed is in scope, what was denied is not, and every scope
  in a candidate, denial or invocation stems from a manifest of that name. The last two
  theorems assume `StableScopes`; `scope_drift` shows that they need it.
* `AllowedCallsSettle`, `DependenciesFirst` - from `ExecutionInv`: results and running calls
  are disjoint parts of the allowed ones, all in batches already begun (`CallInv`); all but
  the last batch are settled (`EarlierSettled`); outside the part of the graph a cycle
  holds up, dependencies lie in earlier batches (`OrderInv`, from `NextBatchOrder`).
* `RunsKeepTheContract` - `Spec => ImplementsContract`: a step maps to a step of
  `RunContract` or to a stutter. `Permitted` is empty until the final gate, so the
  calls of a gate that asked for a replan never count.

`ReportProofs`, on top of it:

* `GapsReachThePlanner` and `PriorityModeAgrees` - from `RouteInv`: past the router, `Routed`
  holds: every routed subtask has a candidate, every candidate a subtask of the plan, and
  no two candidates of a subtask share tool or rank. That a candidate exists (and in
  PRIORITY mode just one) needs a provider of rank 0, and that ranks differ needs a smaller
  set of predecessors (`FirstOffer`, `LargerRank`).
* `WinnersAreSuccesses`, `ConflictsResolveOnce` - from `ConflictInv`: every resolution has a
  successful result of its conflict behind it, none has two, and at the aggregator none is
  missing. A tool's results on a subtask are one result (`ResultsApart`), and `max()` over a
  finite group has exactly one answer (`OneFirstMax`).
* `DigestGivesOneAnswer`, `DigestTellsTheTruth`, `NothingIsLost` - the digest, from all of
  the above; repeated ids are allowed in the first.

* `RegisteredToolsWin`, `UniformScopesMakeReplansTruthful`, `OnlyCancellationBreaksBatches` -
  the properties that `registered_winner`, `replan_prompt` and `fault_isolation` violate, each
  on the condition under which the code keeps it (the first for priority resolution as well
  as for the fallback, the only one the README speaks of): priorities above 0 (0 is what an
  unregistered tool counts as), one scope per capability, no tool that lets a
  `CancelledError` out. The bundled tools and the registry's defaults meet the first two. Of
  these, the second needs `OfferInv` (a candidate has capability and scope of one manifest of
  its tool), and the third the executor's invariant: a run that raises elsewhere has not
  entered it, or has settled every call.

  Minimal elements come from one lemma, `MinimalElement`: strict inclusion of finite sets is
  well-founded, so among the sets "what lies below x" one is minimal, and it is empty.

`TopoBatchesProofs` proves `NodesOnce`, `AsEarlyAsPossible` and `CyclesComeLast`, the three
safety properties of `TopoBatches`, for every set of nodes and every graph on it. Two
facts make them inductive: what a cycle holds up remains as long as anything does
(`StuckRemain`; so a dumped batch is exactly that part), and what remains was not ready for
the last batch (`NotReadyBefore`; so a node that is ready now depends on that batch).

`PlanningProofs` proves `PlannerTyped`, `CatalogsAreLive`, `ListingsAreFaithful`,
`ReplacingNeverBreaks` and `RepairDisciplined` for any registries, edits, room after a resize
and number of attempts. In `PlanInv`, `WalkInv` says why a walk is faithful: the dict's size
tells insertions from removals; an entry that stays only ever moves down, so that the walk
meets it once at most; while nothing came or went, what is behind the walk is listed and it
expects just what is ahead; and if nothing changed at all, the catalog so far is that of
what is behind. `AskingInv` is the repair loop's: attempts left, invalid replies only,
about to quote the last. `FilledRegistriesAreIsolated` is the condition for the property that
`isolated_registry` violates: the registry a caller passes holds a tool at the one moment
`run_orchestrator` looks; it may be emptied later.

`BatchTimingProofs` proves `BatchTyped`, `TimeoutsAreEarned`, `TimedOutCallsLeaveNothing`,
and `BatchesKeepTheContract` for batches of any length, tools of any times and
both modes. `TimingInv` relates, per call, what is queued to the state of its task
(`QueueInv`: no callback that changes a task or a result is queued twice), task, `wait_for`
and result to each other (`TaskInv`), and both to the moments before which nothing of
it may happen (`ClockInv`: `LimitAt`, `AwakeAt`, `EndAt`). The refinement needs `TurnInv`
besides: a parallel batch has every call not yet started in the queue, in order, and in a
sequential one all calls before the one that runs or is next have their results.

`BatchReportProofs`, on top of it, proves what a batch's durations and its report say:
`DelaysAreBlocking`, `LimitsAreDecisive`, `ReportsFitTheCalls` and
`CooperativeReportsAreExact`, again for any batch, and for any bound on the overhead.

* `WakeInv`: a sleeping call has one timer or a callback in the queue that wakes it, a limit
  that is running out has one as well, and no timer outlives its purpose. Without it the
  clock could pass a moment at which something is due, and nothing would bound a delay.
* `DelaysBounded`: the event loop sleeps only when the queue is empty and never past the
  next timer, so that since a call's start it has slept no longer than `OwnTime`, the
  call's sleep or limit, whichever is less. All other time is some tool's blocking
  (`BlockedSoFar`), of which each tool has no more than its own. Hence `DelaysAreBlocking`.
* `LateTogether`: a call that sleeps beyond its limit has its time-out fall due first, and in
  the queue `wait_for`'s callbacks come before those that would wake the call, even if
  another tool blocked beyond both moments and they fall due in one round. Hence
  `LimitsAreDecisive`; what keeps the order are facts about the queue (`TailFollows`,
  `PutFollows`, ...) and one description of what a step does to a call and to the others
  (`Effect`, `SameFor`).
* `ClockCounted`: the clock never exceeds the sum of what the calls have had so far
  (`AllElapsed`), and equals it in sequential mode: blocking moves the elapsed time of
  every call under way, and while none is, nothing moves it. With `ReportInv` (the report is
  made when the last call has finished, and its wall time is the clock's then, up to the
  overhead) `ReportsFitTheCalls` and
  `CooperativeReportsAreExact` follow.

`SumLemmas` has the facts about sums over the calls of a batch: a sum of naturals is a
natural and at least each summand, it is monotone, it changes as its summands do. The
library's fold and induction theorems take operators as parameters; here induction over
finite sets is stated for a set of sets (`SubsetInduction`), from the well-foundedness of
strict inclusion, and a fold over a set is unfolded by one element at a time.

Only model-checked: liveness (`Returns`, `LoopEnds`, `PlannerEnds`, `BatchEnds`), which is
beyond the prover.

## 5. Plan

Done: the request, the planner's walk and repair loop, the batch on the event loop, the
three refinements below them, and the proofs of all that the provers reach. What could
still be added:

1. `CancelledError` caught by a tool, and Python 3.12's `wait_for`, in `BatchTiming`.
2. The calculator's evaluator over bounded expressions, with the digest's formatting of
   integers too long to print (`graph.py:157`).
3. Two runs on one registry at a time; so far the other callers' edits stand for the second.

Not modelled:

* the CLI's printing and trace files, and configuration: I/O around one call, constants
  read once;
* the HTTP transport behind `chat.invoke`; its outcomes are the replies of `JsonRepair`;
* `complete_text`, one attempt without a loop, by itself: its two outcomes are those of
  `AggregatorNode` and `ModelRaises`;
* LangGraph's checkpointing (a run takes at most ten node steps of its limit of 50);
* `ExecutionReport`'s totals and `speedup`, quotients and sums of rounded numbers;
* the mock providers' data, the calculator's arithmetic, path resolution in the sandbox.
