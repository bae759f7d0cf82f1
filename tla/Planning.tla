------------------------------ MODULE Planning ------------------------------
(***************************************************************************)
(* The planner node from the inside: run_orchestrator picks a registry,    *)
(* planner.plan walks it for the catalog in a worker thread, then asks the *)
(* model by complete_json; a replan does both again.  Meanwhile callers on *)
(* the event loop change that registry, and the others of the process.     *)
(***************************************************************************)
EXTENDS Catalog, JsonRepair

CONSTANTS
  InitialDicts,   (* The registries a run may start with, private and      *)
                  (* global.                                               *)
  MaxEdits        (* Bound on registry edits during the run.               *)

Stores == {"private", "global"}

ASSUME MaxEditsTyped == MaxEdits \in Nat
ASSUME InitialDictsTyped ==
  \A ds \in InitialDicts :
    /\ DOMAIN ds = Stores
    /\ \A s \in Stores : IsDict(ds[s])
    /\ \A s \in Stores : \A n \in DOMAIN ds[s].tools :
         ds[s].tools[n].manifest \in Manifests[n]

VARIABLES
  dicts,     (* The registries of the process.                             *)
  edits,     (* How often they were edited.                                *)
  given,     (* The caller's registry: private, or none.                   *)
  using,     (* The registry the run has in its state.                     *)
  stage,     (* How far the planner is.                                    *)
  plans,     (* How many planning calls there were.                        *)
  walk,
  catalog,
  listed,    (* History: the tools and manifests the walk met, in order.   *)
  past,      (* History: what the registry held since the planner's call.  *)
  grew,      (* History: names inserted during the walk ...                *)
  shrank     (* ... and names removed.                                     *)

callVars == <<given, using, stage, plans>>
walkVars == <<walk, catalog, listed>>
dictVars == <<dicts, edits, past, grew, shrank>>
pvars == <<callVars, walkVars, dictVars, jsonVars>>

MAX_REPLANS == 1

Stages == {"called", "planning", "walking", "asking", "planned", "raised",
           "gone"}

Nothing == [x \in {} |-> x]

PlanningTypeOK ==
  /\ DOMAIN dicts = Stores /\ \A s \in Stores : IsDict(dicts[s])
  /\ edits \in 0..MaxEdits
  /\ given \in {"none", "private"}
  /\ using \in Stores
  /\ stage \in Stages
  /\ plans \in 0..MAX_REPLANS + 1
  /\ walk \in Walk
  /\ DOMAIN catalog \subseteq Caps /\ catalog \in [DOMAIN catalog -> Line]
  /\ listed \in Seq([tool : Tools, manifest : Manifest])
  /\ \A reg \in past : IsRegistry(reg)
  /\ grew \in Nat /\ shrank \in Nat
  /\ JsonTypeOK

PlanningInit ==
  /\ dicts \in InitialDicts /\ edits = 0
  /\ given \in {"none", "private"} /\ using = "global"
  /\ stage = "called" /\ plans = 0
  /\ walk = [slot |-> 0, size |-> 0, left |-> 0]
  /\ catalog = Nothing /\ listed = <<>>
  /\ past = {} /\ grew = 0 /\ shrank = 0
  /\ JsonIdle

(* registry or REGISTRY: a Registry has __len__, so an empty one is false. *)
OrGlobal(s) ==
  IF s = "private" /\ Size(dicts["private"]) > 0 THEN "private" ELSE "global"

-----------------------------------------------------------------------------
(* Callers that share the registries.                                      *)
PlannerOver == stage \in {"raised", "gone"}

(* Registry s now is d.                                                    *)
Edit(s, d) ==
  /\ ~PlannerOver /\ edits < MaxEdits
  /\ dicts' = [dicts EXCEPT ![s] = d]
  /\ edits' = edits + 1
  /\ IF s = using /\ stage \in {"planning", "walking"}
       THEN past' = past \cup {d.tools}
       ELSE UNCHANGED past
  /\ IF s = using /\ stage = "walking"
       THEN /\ grew' = grew + (IF Size(d) > Size(dicts[s]) THEN 1 ELSE 0)
            /\ shrank' = shrank + (IF Size(d) < Size(dicts[s]) THEN 1 ELSE 0)
       ELSE UNCHANGED <<grew, shrank>>
  /\ UNCHANGED <<callVars, walkVars, jsonVars>>

(* Mutant of RegisterIn: a replaced tool leaves the dict and comes back.   *)
ReinsertIn(s, n, m, replace) ==
  /\ n \in DOMAIN dicts[s].tools => replace
  /\ Edit(s, Stored(Popped(dicts[s], n), n, m))

(* Registry.register; tool_def calls it with replace=True on the registry  *)
(* it is given, or on the global one if that is None.                      *)
RegisterIn(s, n, m, replace) ==
  /\ n \in DOMAIN dicts[s].tools => replace
  /\ Edit(s, Stored(dicts[s], n, m))

(* weather_c.register(registry).                                           *)
RegisterLate(s, n, m) == Edit(OrGlobal(s), Stored(dicts[OrGlobal(s)], n, m))

UnregisterIn(s, n) ==
  /\ n \in DOMAIN dicts[s].tools
  /\ Edit(s, Popped(dicts[s], n))

-----------------------------------------------------------------------------
(* The run: run_orchestrator, then planner.plan in its worker thread.      *)

(* run_orchestrator fills in its initial state; the planner node is next.  *)
EnterRun ==
  /\ stage = "called"
  /\ using' = OrGlobal(given)
  /\ stage' = "planning"
  /\ past' = {dicts[using'].tools}
  /\ UNCHANGED <<given, plans, walkVars, dicts, edits, grew, shrank, jsonVars>>

(* Mutant of BeginCatalog: a replan keeps what the first plan collected.   *)
BeginCatalogOnce ==
  /\ stage = "planning"
  /\ stage' = "walking" /\ plans' = plans + 1
  /\ walk' = BeginWalk(dicts[using])
  /\ IF plans = 0 THEN catalog' = Nothing ELSE UNCHANGED catalog
  /\ listed' = <<>> /\ grew' = 0 /\ shrank' = 0
  /\ UNCHANGED <<given, using, dicts, edits, past, jsonVars>>

(* plan starts in the thread and capability_catalog makes its iterator.    *)
BeginCatalog ==
  /\ stage = "planning"
  /\ stage' = "walking" /\ plans' = plans + 1
  /\ walk' = BeginWalk(dicts[using])
  /\ catalog' = Nothing /\ listed' = <<>>
  /\ grew' = 0 /\ shrank' = 0
  /\ UNCHANGED <<given, using, dicts, edits, past, jsonVars>>

(* The next turn of its loop.                                              *)
ListTool(n) ==
  LET manifest == dicts[using].tools[n].manifest
  IN  /\ stage = "walking"
      /\ ~WalkBreaks(walk, dicts[using]) /\ IsNext(walk, dicts[using], n)
      /\ walk' = WalkOn(walk, dicts[using], n)
      /\ catalog' = Listed(catalog, n, manifest)
      /\ listed' = Append(listed, [tool |-> n, manifest |-> manifest])
      /\ UNCHANGED <<callVars, dictVars, jsonVars>>

(* The RuntimeError passes plan, the node and run_orchestrator.            *)
CatalogBreaks ==
  /\ stage = "walking" /\ WalkBreaks(walk, dicts[using])
  /\ stage' = "raised"
  /\ UNCHANGED <<given, using, plans, walkVars, dictVars, jsonVars>>

(* The prompt is made, and complete_json called without max_attempts.      *)
CatalogDone ==
  /\ stage = "walking" /\ WalkEnds(walk, dicts[using])
  /\ stage' = "asking"
  /\ CallCompleteJson(0)
  /\ UNCHANGED <<given, using, plans, walkVars, dictVars>>

(* Mutant of AskModel: an LLMError starts the call afresh.                 *)
AskAgain(reply) ==
  /\ stage = "asking"
  /\ IF AfterReply(reply, Len(replies) + 1) = "LLMError"
       THEN CallCompleteJson(0) /\ UNCHANGED stage
       ELSE /\ Attempt(reply)
            /\ stage' = CASE outcome' = "asking" -> "asking"
                          [] outcome' = "valid" -> "planned"
                          [] OTHER -> "raised"
  /\ UNCHANGED <<given, using, plans, walkVars, dictVars>>

(* A valid plan goes back to the graph; what complete_json raises leaves   *)
(* the run.                                                                *)
AskModel(reply) ==
  /\ stage = "asking"
  /\ Attempt(reply)
  /\ stage' = CASE outcome' = "asking" -> "asking"
                [] outcome' = "valid" -> "planned"
                [] OTHER -> "raised"
  /\ UNCHANGED <<given, using, plans, walkVars, dictVars>>

(* Mutant of Replan: the graph goes back as often as it likes.             *)
ReplanAgain ==
  /\ stage = "planned" /\ plans <= MAX_REPLANS + 1
  /\ stage' = "planning"
  /\ past' = {dicts[using].tools}
  /\ UNCHANGED <<given, using, plans, walkVars, dicts, edits, grew, shrank,
                 jsonVars>>

(* The gate sends the graph back, or on.                                   *)
Replan ==
  /\ stage = "planned" /\ plans <= MAX_REPLANS
  /\ stage' = "planning"
  /\ past' = {dicts[using].tools}
  /\ UNCHANGED <<given, using, plans, walkVars, dicts, edits, grew, shrank,
                 jsonVars>>
GoOn ==
  /\ stage = "planned"
  /\ stage' = "gone"
  /\ UNCHANGED <<given, using, plans, walkVars, dictVars, jsonVars>>

Rest == PlannerOver /\ UNCHANGED pvars

-----------------------------------------------------------------------------
EditRegistries ==
  \E s \in Stores, n \in Tools :
    \/ \E m \in Manifests[n], replace \in BOOLEAN : RegisterIn(s, n, m, replace)
    \/ \E m \in Manifests[n] : RegisterLate(s, n, m)
    \/ UnregisterIn(s, n)

PlannerStep ==
  \/ EnterRun
  \/ BeginCatalog
  \/ \E n \in Tools : ListTool(n)
  \/ CatalogBreaks
  \/ CatalogDone
  \/ \E reply \in Replies : AskModel(reply)

PlanningNext == EditRegistries \/ PlannerStep \/ Replan \/ GoOn \/ Rest

(* The worker thread runs, and the model client has a request time-out.    *)
PlanningSpec ==
  PlanningInit /\ [][PlanningNext]_pvars /\ WF_pvars(PlannerStep)

-----------------------------------------------------------------------------
CatalogMade == stage \in {"asking", "planned"}

(* "drawn from the live registry catalog, re-read on every call": if the   *)
(* registry stays as it is from the planner's call to the end of its walk, *)
(* the catalog is what that registry offers, each capability with all its  *)
(* scopes, its number of tools and the earliest one's description.         *)
CatalogIsLive ==
  CatalogMade => \A reg \in past : past = {reg} => catalog = CatalogOf(reg)

TimesListed(n) == Cardinality({k \in DOMAIN listed : listed[k].tool = n})

(* Whatever callers do during the walk, it lists a tool only under a       *)
(* manifest the tool has had since the planner's call, and no tool twice   *)
(* that was there all along; one that was there all along is missing only  *)
(* if a name was inserted and another removed meanwhile.                   *)
ListingFaithful ==
  stage \in {"walking", "asking", "planned"} =>
    /\ \A k \in DOMAIN listed : \E reg \in past :
         /\ listed[k].tool \in DOMAIN reg
         /\ reg[listed[k].tool].manifest = listed[k].manifest
    /\ \A n \in Tools : (\A reg \in past : n \in DOMAIN reg) =>
         /\ TimesListed(n) <= 1
         /\ CatalogMade /\ (grew = 0 \/ shrank = 0) => TimesListed(n) = 1

(* A walk that ends has seen as many insertions as removals, and one that  *)
(* breaks has seen at least one of them: replacing tools, as tool_def and  *)
(* weather_c.register do for names already there, never breaks a walk.     *)
OnlyResizingBreaksWalks ==
  /\ CatalogMade => grew = shrank
  /\ stage = "raised" /\ outcome \in {"idle", "valid"} => grew + shrank > 0

(* The repair loop: at most budget attempts; another one only after a      *)
(* reply that was no valid JSON for the schema, and quoting exactly that   *)
(* reply; a plan only from a valid one; an LLMError only from a transport  *)
(* failure or a budget spent on invalid replies.                           *)
RepairDiscipline ==
  LET n == Len(replies)
      last == IF n = 0 THEN "none" ELSE replies[n]
  IN  /\ Len(prompts) = n
      /\ outcome # "idle" => n <= budget
      /\ \A k \in 1..n - 1 : replies[k] = "invalid"
      /\ \A k \in 1..n : prompts[k] = IF k = 1 THEN {} ELSE {k - 1}
      /\ (outcome = "valid") = (last = "valid")
      /\ outcome = "LLMError" =>
           last = "transport" \/ (last = "invalid" /\ n = budget)

(* "fully instantiable so tests can build isolated registries instead of   *)
(* sharing process state": a caller that passes a registry of its own gets *)
(* plans from that registry's catalog and no other.                        *)
IsolatedRegistry ==
  given = "private" /\ listed # <<>> => using = "private"

(* Each planning call ends, with a plan or an exception.                   *)
PlannerEnds == stage = "planning" ~> stage \in {"planned", "raised"}
=============================================================================
