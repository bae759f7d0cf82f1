--------------------------- MODULE MCOrchestrator ---------------------------
(***************************************************************************)
(* Small instances of the orchestrator.  Each cfg picks the tools, plans   *)
(* and requests of one question from the definitions below.                *)
(***************************************************************************)
EXTENDS OrchestratorProperties

MCTools == {"wa", "wb", "note"}
MCCaps == {"weather", "write", "teleport"}
MCScopes == {"read", "write"}
MCIds == 1..3

M(caps, scope, priority) ==
  [caps |-> caps, scope |-> scope, priority |-> priority]

S(id, cap, deps) == [id |-> id, cap |-> cap, deps |-> deps]

Requesting(scopes, modes, policies, sequential) ==
  [scope : scopes, mode : modes, policy : policies, sequential : sequential]

(* The registry that holds the tools of the sequence names, registered in  *)
(* this order, each by the manifest f gives it.                            *)
Registered(names, f) ==
  [n \in {names[k] : k \in DOMAIN names} |->
     [manifest |-> f[n],
      since |-> (CHOOSE k \in DOMAIN names : names[k] = n) - 1]]

-----------------------------------------------------------------------------
(* Routing, the gate and the replan, while tools come and go.  A name      *)
(* keeps its scope; wa may come back with a higher priority.               *)
FlowFirst ==
  [wa |-> M({"weather"}, "read", 1), wb |-> M({"weather"}, "write", 1),
   note |-> M({"write"}, "write", 1)]
FlowManifests ==
  [wa |-> {FlowFirst["wa"], M({"weather", "write"}, "read", 2)},
   wb |-> {FlowFirst["wb"]}, note |-> {FlowFirst["note"]}]
FlowRegistries ==
  {Registered(<<"wa", "wb", "note">>, FlowFirst),
   Registered(<<"wb", "wa">>, FlowFirst), Registered(<<>>, FlowFirst)}
FlowPlans ==
  {<<>>,
   <<S(1, "weather", {})>>,
   <<S(1, "weather", {}), S(2, "write", {1})>>,
   <<S(2, "write", {}), S(1, "teleport", {})>>}
FlowRequests ==
  Requesting({{}, {"read"}, MCScopes}, RouterModes, {"priority"}, {FALSE})

(* A plan that uses an id for two subtasks. *)
TwinPlans == {<<S(1, "weather", {}), S(1, "write", {})>>}

(* The same, where a name may come back with another scope.                *)
DriftManifests ==
  [FlowManifests EXCEPT !["wa"] = @ \cup {M({"weather"}, "write", 1)}]
DriftRequests == Requesting({{"read"}}, {"all"}, {"priority"}, {FALSE})

-----------------------------------------------------------------------------
(* Dependencies: one tool, three subtasks, every dependency graph on them, *)
(* self-dependencies included, and a plan that uses an id twice.           *)
GraphFirst == [wa |-> M({"weather"}, "read", 1)]
GraphManifests == [n \in MCTools |-> IF n = "wa" THEN {GraphFirst["wa"]} ELSE {}]
GraphRegistries == {Registered(<<"wa">>, GraphFirst)}
GraphPlans ==
  {<<S(2, "weather", d2), S(1, "weather", d1), S(3, "weather", d3)>> :
     d1, d2, d3 \in SUBSET MCIds}
  \cup {<<S(1, "weather", {2}), S(2, "weather", {}), S(1, "weather", {})>>}
GraphRequests ==
  Requesting({{"read"}}, {"all"}, {"freshest"}, BOOLEAN)

-----------------------------------------------------------------------------
(* Conflicts: one capability with three providers, one of them with a      *)
(* priority below 0, and one with two; a provider may vanish, or come back *)
(* with a higher priority.                                                 *)
ClashFirst ==
  [wa |-> M({"weather", "write"}, "read", 1),
   wb |-> M({"weather", "write"}, "read", 1),
   note |-> M({"weather"}, "read", -1)]
ClashManifests ==
  [n \in MCTools |->
     {ClashFirst[n]} \cup
     (IF n = "wb" THEN {M({"weather"}, "read", 2)} ELSE {})]
ClashRegistries == {Registered(<<"wb", "wa", "note">>, ClashFirst)}
ClashPlans ==
  {<<S(1, "weather", {})>>, <<S(2, "write", {1}), S(1, "write", {})>>}
ClashRequests ==
  Requesting({{"read"}}, {"all"}, Policies, BOOLEAN)
=============================================================================
