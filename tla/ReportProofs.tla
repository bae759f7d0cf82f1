---------------------------- MODULE ReportProofs ----------------------------
(***************************************************************************)
(* Theorems about conflicts, the digest and the replan, for every set of   *)
(* tools, plans, requests and registries, and any number of edits.         *)
(***************************************************************************)
EXTENDS OrchestratorProofs

-----------------------------------------------------------------------------
(* Sorting and max() pick something: a finite set has a minimal element    *)
(* under every strict order.                                               *)
LEMMA MinimalElement ==
  ASSUME NEW S, IsFiniteSet(S), S # {}, NEW R,
         \A x \in S : <<x, x>> \notin R,
         \A x, y, z \in S : <<x, y>> \in R /\ <<y, z>> \in R => <<x, z>> \in R
  PROVE  \E x \in S : \A y \in S : <<y, x>> \notin R
<1> DEFINE below(x) == {y \in S : <<y, x>> \in R}
           T == {below(x) : x \in S}
<1>1. T \subseteq FiniteSubsetsOf(S) /\ T # {}
  <2>1. \A x \in S : below(x) \in SUBSET S
    OBVIOUS
  <2>2. \A x \in S : below(x) \in FiniteSubsetsOf(S)
    <3> HIDE DEF below
    <3> QED
      BY <2>1, FS_Subset DEF FiniteSubsetsOf
  <2> HIDE DEF below
  <2> QED
    BY <2>2
<1>2. PICK B \in T : \A U \in T : <<U, B>> \notin StrictSubsetOrdering(S)
  <2> HIDE DEF T
  <2> QED
    BY <1>1, FS_StrictSubsetOrderingWellFounded, WFMin
<1>3. PICK x \in S : B = below(x)
  BY <1>2
<1>4. ASSUME NEW y \in S, <<y, x>> \in R
      PROVE  FALSE
  <2>1. below(y) \subseteq below(x)
    BY <1>4
  <2>2. y \in below(x) /\ y \notin below(y)
    BY <1>4
  <2>3. <<below(y), below(x)>> \in StrictSubsetOrdering(S)
    BY <2>1, <2>2 DEF StrictSubsetOrdering
  <2> QED
    BY <1>2, <1>3, <2>3
<1> QED
  BY <1>4

(* Of two providers, the one listed first has the smaller rank.            *)
LEMMA LargerRank ==
  ASSUME NEW reg, IsRegistry(reg), NEW cap,
         NEW m \in Offers(reg, cap), NEW n \in Offers(reg, cap),
         Precedes(reg, m, n)
  PROVE  Rank(reg, cap, m) < Rank(reg, cap, n)
<1> DEFINE above(k) == {j \in Offers(reg, cap) : Precedes(reg, j, k)}
<1>1. \A k \in Offers(reg, cap) :
        /\ reg[k].manifest.priority \in Int /\ reg[k].since \in Nat
  BY DEF Offers, IsRegistry, Entry, Manifest
<1>2. above(m) \subseteq above(n)
  BY <1>1 DEF Precedes
<1>3. m \in above(n) /\ m \notin above(m)
  BY <1>1 DEF Precedes
<1>4. IsFiniteSet(above(n)) /\ IsFiniteSet(above(m))
  <2>1. above(n) \subseteq DOMAIN reg /\ above(m) \subseteq DOMAIN reg
    BY DEF Offers
  <2> QED
    BY <2>1, RegistryFinite, FS_Subset
<1>5. /\ Cardinality(above(m)) \in Nat /\ Cardinality(above(n)) \in Nat
      /\ Cardinality(above(m)) <= Cardinality(above(n))
      /\ Cardinality(above(m)) # Cardinality(above(n))
  <2> HIDE DEF above
  <2> QED
    BY <1>2, <1>3, <1>4, FS_CardinalityType, FS_Subset
<1> QED
  BY <1>5 DEF Rank

(* No two providers of a capability have one rank, and one of them has 0.  *)
LEMMA RanksDistinct ==
  ASSUME NEW reg, IsRegistry(reg), NEW cap,
         NEW m \in Offers(reg, cap), NEW n \in Offers(reg, cap),
         Rank(reg, cap, m) = Rank(reg, cap, n)
  PROVE  m = n
<1>1. \A k \in Offers(reg, cap) :
        /\ k \in DOMAIN reg
        /\ reg[k].manifest.priority \in Int /\ reg[k].since \in Nat
  BY DEF Offers, IsRegistry, Entry, Manifest
<1>2. m # n => Precedes(reg, m, n) \/ Precedes(reg, n, m)
  BY <1>1 DEF Precedes, IsRegistry
<1>3. Rank(reg, cap, m) \in Nat /\ Rank(reg, cap, n) \in Nat
  BY RankType
<1> QED
  BY <1>2, <1>3, LargerRank

LEMMA FirstOffer ==
  ASSUME NEW reg, IsRegistry(reg), NEW cap, Offers(reg, cap) # {}
  PROVE  \E n \in Offers(reg, cap) : Rank(reg, cap, n) = 0
<1> DEFINE S == Offers(reg, cap)
           R == {p \in S \X S : Precedes(reg, p[1], p[2])}
<1>1. \A k \in S : reg[k].manifest.priority \in Int /\ reg[k].since \in Nat
  BY DEF Offers, IsRegistry, Entry, Manifest
<1>2. \A x, y \in S : <<x, y>> \in R <=> Precedes(reg, x, y)
  OBVIOUS
<1>3. /\ \A x \in S : ~Precedes(reg, x, x)
      /\ \A x, y, z \in S :
           Precedes(reg, x, y) /\ Precedes(reg, y, z) => Precedes(reg, x, z)
  BY <1>1 DEF Precedes
<1>4. IsFiniteSet(S)
  BY RegistryFinite, FS_Subset DEF Offers
<1>5. PICK n \in S : \A m \in S : <<m, n>> \notin R
  <2> HIDE DEF S, R
  <2> QED
    BY <1>2, <1>3, <1>4, MinimalElement DEF S
<1>6. {m \in S : Precedes(reg, m, n)} = {}
  BY <1>2, <1>5
<1> QED
  BY <1>6, FS_EmptySet DEF Rank

-----------------------------------------------------------------------------
(* What the router makes of a plan.                                        *)

(* Of the subtasks that share an id, exactly one is the last.              *)
LEMMA LastOfAnId ==
  ASSUME NEW p \in Seq(Subtask), NEW I \in SUBSET DOMAIN p, NEW k \in I
  PROVE  \E i \in I : p[i].id = p[k].id /\ LastWithId(p, I, p[k].id) = {i}
<1> DEFINE S == {j \in I : p[j].id = p[k].id}
           R == {q \in S \X S : q[1] > q[2]}
<1>1. S \subseteq 1..Len(p) /\ k \in S /\ Len(p) \in Nat
  OBVIOUS
<1>2. \A x \in S : x \in Nat
  BY <1>1
<1>3. \A x, y \in S : <<x, y>> \in R <=> x > y
  OBVIOUS
<1>4. IsFiniteSet(S)
  <2>1. IsFiniteSet(1..Len(p))
    BY <1>1, FS_Interval
  <2> HIDE DEF S
  <2> QED
    BY <1>1, <2>1, FS_Subset
<1>5. PICK i \in S : \A j \in S : <<j, i>> \notin R
  <2>1. /\ \A x \in S : <<x, x>> \notin R
        /\ \A x, y, z \in S :
             <<x, y>> \in R /\ <<y, z>> \in R => <<x, z>> \in R
    <3> HIDE DEF S, R
    <3> QED
      BY <1>2, <1>3
  <2>2. S # {}
    BY <1>1
  <2> HIDE DEF S, R
  <2> QED
    BY <1>4, <2>1, <2>2, MinimalElement
<1>6. ASSUME NEW j \in S
      PROVE  j <= i
  <2>1. ~(j > i)
    <3> HIDE DEF S, R
    <3> QED
      BY <1>3, <1>5
  <2>2. j \in Nat /\ i \in Nat
    BY <1>2
  <2> HIDE DEF S
  <2> QED
    BY <2>1, <2>2
<1>7. LastWithId(p, I, p[k].id) = {i}
  BY <1>2, <1>6 DEF LastWithId
<1> QED
  BY <1>7

(* What a routing is good for: each routed subtask has a candidate, each   *)
(* candidate comes from the plan, and within one subtask neither a tool    *)
(* nor a place in the list occurs twice.                                   *)
OneOf(c, d, mode) ==
  c.tool = d.tool \/ c.rank = d.rank \/ mode = "priority" => c = d

Routed(cands, unroutables, p, mode) ==
  /\ \A id \in DOMAIN cands :
       /\ cands[id] # {}
       /\ \A c \in cands[id] :
            c.id = id /\ \E i \in DOMAIN p : p[i].id = id /\ p[i].cap = c.cap
       /\ \A c, d \in cands[id] : OneOf(c, d, mode)
  /\ \A i \in DOMAIN p : p[i].id \in DOMAIN cands \cup unroutables

LEMMA CandidatesRouted ==
  ASSUME NEW reg, IsRegistry(reg), NEW subtask, Offers(reg, subtask.cap) # {},
         NEW mode \in RouterModes
  PROVE  /\ CandidatesFor(subtask, reg, mode) # {}
         /\ \A c \in CandidatesFor(subtask, reg, mode) :
              c.id = subtask.id /\ c.cap = subtask.cap
         /\ \A c, d \in CandidatesFor(subtask, reg, mode) : OneOf(c, d, mode)
<1>1. Chosen(reg, subtask.cap, mode) # {}
  BY FirstOffer DEF Chosen
<1>2. ASSUME NEW m \in Chosen(reg, subtask.cap, mode),
             NEW n \in Chosen(reg, subtask.cap, mode),
             \/ Rank(reg, subtask.cap, m) = Rank(reg, subtask.cap, n)
             \/ mode = "priority"
      PROVE  m = n
  BY <1>2, RanksDistinct DEF Chosen
<1>3. \A c \in CandidatesFor(subtask, reg, mode) :
        /\ c.id = subtask.id /\ c.cap = subtask.cap
        /\ c.tool \in Chosen(reg, subtask.cap, mode)
        /\ c.rank = Rank(reg, subtask.cap, c.tool)
        /\ c = [id |-> subtask.id, cap |-> subtask.cap, tool |-> c.tool,
                scope |-> reg[c.tool].manifest.scope,
                rank |-> Rank(reg, subtask.cap, c.tool)]
  BY DEF CandidatesFor
<1>4. CandidatesFor(subtask, reg, mode) # {}
  BY <1>1 DEF CandidatesFor
<1>5. \A c, d \in CandidatesFor(subtask, reg, mode) : OneOf(c, d, mode)
  BY <1>2, <1>3 DEF OneOf
<1> QED
  BY <1>3, <1>4, <1>5

LEMMA RouteRouted ==
  ASSUME NEW reg, IsRegistry(reg), NEW p \in Seq(Subtask),
         NEW mode \in RouterModes
  PROVE  Routed(RouteCandidates(p, reg, mode), RouteUnroutable(p, reg), p, mode)
<1> DEFINE routable == Routable(p, reg)
           routed == RouteCandidates(p, reg, mode)
<1>1. DOMAIN routed = {p[i].id : i \in routable}
  BY DEF RouteCandidates
<1>2. ASSUME NEW id \in DOMAIN routed
      PROVE  \E i \in routable :
               p[i].id = id /\ routed[id] = CandidatesFor(p[i], reg, mode)
  <2>1. PICK k \in routable : p[k].id = id
    BY <1>1
  <2>2. PICK i \in routable : /\ p[i].id = id
                              /\ LastWithId(p, routable, id) = {i}
    <3>1. routable \in SUBSET DOMAIN p
      BY DEF Routable
    <3> HIDE DEF routable
    <3>2. \E i \in routable : /\ p[i].id = p[k].id
                              /\ LastWithId(p, routable, p[k].id) = {i}
      BY <3>1, LastOfAnId
    <3> QED
      BY <2>1, <3>2
  <2>3. routed[id] = UNION {CandidatesFor(p[j], reg, mode) :
                              j \in LastWithId(p, routable, id)}
    BY DEF RouteCandidates
  <2> HIDE DEF routed, routable
  <2> QED
    BY <2>2, <2>3
<1>3. ASSUME NEW id \in DOMAIN routed
      PROVE  /\ routed[id] # {}
             /\ \A c \in routed[id] :
                  c.id = id /\ \E i \in DOMAIN p : p[i].id = id /\ p[i].cap = c.cap
             /\ \A c, d \in routed[id] : OneOf(c, d, mode)
  <2>1. PICK i \in routable :
               p[i].id = id /\ routed[id] = CandidatesFor(p[i], reg, mode)
    BY <1>2
  <2>2. i \in DOMAIN p /\ Offers(reg, p[i].cap) # {}
    BY DEF Routable
  <2> HIDE DEF routed, routable
  <2> QED
    BY <2>1, <2>2, CandidatesRouted
<1>4. \A i \in DOMAIN p : p[i].id \in DOMAIN routed \cup RouteUnroutable(p, reg)
  BY <1>1 DEF RouteUnroutable
<1> QED
  BY <1>3, <1>4 DEF Routed

-----------------------------------------------------------------------------
(* Past the gate, candidates are a routing of the plan, and allowed and    *)
(* denied calls are its two parts; at any time, allowed calls of one       *)
(* subtask differ in tool and in rank.                                     *)

CurrentRouting ==
  node = "permission_gate" \/ PastGate =>
    Routed(candidates, unroutable, plan, request.mode)

GateSplits ==
  PastGate => /\ allowed = GateAllowed(candidates, request.scope)
              /\ GateDenials(candidates, request.scope) \subseteq allDenials

AllowedApart ==
  \A c, d \in allowed : c.id = d.id => OneOf(c, d, request.mode)

RouteInv == CurrentRouting /\ GateSplits /\ AllowedApart /\ GapsAreReplanned

(* A step past which the graph is at no new place of the planning part.    *)
LEMMA RouteFrame ==
  ASSUME RouteInv,
         UNCHANGED <<request, plan, pendingDenials, routeVars, gateVars>>,
         PastGate' => PastGate,
         node' \in {"permission_gate", "planner"} => node' = node
  PROVE  RouteInv'
  BY DEF RouteInv, CurrentRouting, GateSplits, AllowedApart, GapsAreReplanned,
         routeVars, gateVars

LEMMA GateRouteStep ==
  ASSUME TypeInv, RouteInv, PermissionGateNode
  PROVE  RouteInv'
<1> DEFINE now == GateAllowed(candidates, request.scope)
           dropped == GateDenials(candidates, request.scope)
           gaps == FullyDenied(candidates, now)
<1>1. /\ allowed' = now /\ allDenials' = allDenials \cup dropped
      /\ UNCHANGED <<request, plan, candidates, unroutable>>
      /\ node' \in {"planner", "executor"}
      /\ node' = "executor" => gaps = {} \/ replans = MAX_REPLANS
      /\ node' = "executor" => replans' = replans
      /\ node' = "planner" => gaps # {} /\ pendingDenials' = dropped
  BY DEF PermissionGateNode, ShouldReplan, routeVars, TypeInv, TypeOK, MAX_REPLANS
<1>2. Routed(candidates, unroutable, plan, request.mode)
  BY DEF PermissionGateNode, RouteInv, CurrentRouting
<1>3. CurrentRouting' /\ GateSplits'
  BY <1>1, <1>2 DEF CurrentRouting, GateSplits
<1>4. AllowedApart'
  <2> SUFFICES ASSUME NEW c \in now, NEW d \in now, c.id = d.id
               PROVE  OneOf(c, d, request.mode)
    BY <1>1 DEF AllowedApart
  <2>1. PICK id \in DOMAIN candidates : c \in candidates[id]
    BY DEF GateAllowed, AllCandidates
  <2>2. PICK other \in DOMAIN candidates : d \in candidates[other]
    BY DEF GateAllowed, AllCandidates
  <2>3. id = other
    BY <1>2, <2>1, <2>2 DEF Routed
  <2> QED
    BY <1>2, <2>1, <2>2, <2>3 DEF Routed
<1>5. gaps \subseteq {d.id : d \in dropped}
  <2> SUFFICES ASSUME NEW id \in gaps
               PROVE  id \in {d.id : d \in dropped}
    OBVIOUS
  <2>1. id \in DOMAIN candidates /\ \A c \in now : c.id # id
    BY DEF FullyDenied
  <2>2. PICK c \in candidates[id] : c.id = id
    BY <1>2, <2>1 DEF Routed
  <2>3. c \in AllCandidates(candidates) /\ c \notin now
    BY <2>1, <2>2 DEF AllCandidates
  <2>4. c \in dropped
    BY <2>3 DEF GateAllowed, GateDenials
  <2> QED
    BY <2>2, <2>4
<1>6. GapsAreReplanned'
  <2>1. FullyDenied(candidates, allowed)' = gaps
    BY <1>1 DEF FullyDenied
  <2> HIDE DEF gaps, dropped
  <2> QED
    BY <1>1, <1>5, <2>1 DEF GapsAreReplanned, PastGate
<1> QED
  BY <1>3, <1>4, <1>6 DEF RouteInv

LEMMA StepRouteInv == TypeInv /\ RouteInv /\ [Next]_vars => RouteInv'
<1> SUFFICES ASSUME TypeInv, RouteInv, [Next]_vars PROVE RouteInv'
  OBVIOUS
<1>1. CASE PlannerNode
  BY <1>1 DEF PlannerNode, routeVars, gateVars, RouteInv, CurrentRouting,
              GateSplits, AllowedApart, GapsAreReplanned, PastGate
<1>2. CASE RouterNode
  <2>1. plan \in Seq(Subtask) /\ request.mode \in RouterModes
    <3>1. <<>> \in Seq(Subtask)
      OBVIOUS
    <3> QED
      BY <3>1, PlansTyped, RequestsTyped DEF TypeInv, TypeOK, Request
  <2>2. Routed(candidates', unroutable', plan, request.mode)
    BY <1>2, <2>1, RouteRouted DEF RouterNode, TypeInv, TypeOK
  <2> QED
    BY <1>2, <2>2 DEF RouterNode, planVars, gateVars, RouteInv, CurrentRouting,
                      GateSplits, AllowedApart, GapsAreReplanned, PastGate
<1>3. CASE PermissionGateNode
  BY <1>3, GateRouteStep
<1>4. CASE ExecuteStep
  <2>1. /\ UNCHANGED <<request, plan, pendingDenials, routeVars, gateVars>>
        /\ PastGate' => PastGate
        /\ node' \in {"executor", "check_conflicts", "raised"}
    BY <1>4 DEF ExecuteStep, StartBatch, CallStep, InvokeTool, InvokeMissing,
                NextToStart, ToolSucceeds, ToolFails, Settle,
                CancellationEscapes, OrphanEnds, FinishExecutor, planVars, PastGate
  <2> QED
    BY <2>1, RouteFrame
<1>5. CASE ReportStep \/ ModelRaises
  <2>1. /\ UNCHANGED <<request, plan, pendingDenials, routeVars, gateVars>>
        /\ PastGate' => PastGate
        /\ node' \in {"resolver", "aggregator", "end", "raised"}
    BY <1>5 DEF ReportStep, CheckConflictsNode, ResolveByRule, ModelChooses,
                FallBackToPriority, Resolve, AggregatorNode, ModelRaises,
                planVars, PastGate
  <2> QED
    BY <2>1, RouteFrame
<1>6. CASE EditStep \/ UNCHANGED vars
  BY <1>6, RouteFrame DEF EditStep, RegisterTool, UnregisterTool, vars, planVars,
                          PastGate
<1> QED
  BY <1>1, <1>2, <1>3, <1>4, <1>5, <1>6
     DEF Next, GraphStep, DecideStep, Returned

LEMMA InitRouteInv == Init => RouteInv
  BY DEF Init, RouteInv, CurrentRouting, GateSplits, AllowedApart,
         GapsAreReplanned, PastGate

LEMMA RouteInvariant == Spec => [](RunInv /\ RouteInv)
  BY ExecutionInvariant, InitTypeInv, InitRouteInv, StepTypeInv, StepRouteInv, PTL
     DEF Spec, RunInv

(* The tools run with a gap in the plan only after a second plan, and the  *)
(* second plan is asked for with all gaps named: for any plans, registries *)
(* and sessions.                                                           *)
THEOREM GapsReachThePlanner == Spec => []GapsAreReplanned
<1>1. RouteInv => GapsAreReplanned
  BY DEF RouteInv
<1> QED
  BY <1>1, RouteInvariant, PTL

-----------------------------------------------------------------------------
(* Conflicts and their resolution.                                         *)

NotYetChecked == Deciding \/ node \in {"executor", "check_conflicts"}

(* A resolution names a successful candidate of a conflict, no conflict    *)
(* has two, and at the aggregator each has one.                            *)
Justified(res) ==
  /\ res.id \in conflicts
  /\ \E r \in Successes(results, res.id) : r.call.tool = res.tool

ConflictInv ==
  /\ IsFiniteSet(results)
  /\ NotYetChecked => conflicts = {} /\ resolutions = {}
  /\ conflicts \subseteq DetectConflicts(results)
  /\ node \in {"resolver", "aggregator", "end"} =>
       DetectConflicts(results) \subseteq conflicts
  /\ \A res \in resolutions : Justified(res)
  /\ \A p, q \in resolutions : p.id = q.id => p = q
  /\ node \in {"aggregator", "end"} =>
       conflicts \subseteq {res.id : res \in resolutions}

ReportInv == RunInv /\ RouteInv /\ ConflictInv

(* One result per tool and per rank of a subtask.                          *)
LEMMA ResultsApart ==
  ASSUME RunInv, RouteInv, NEW r \in results, NEW q \in results,
         r.call.id = q.call.id,
         \/ r.call.tool = q.call.tool \/ r.call.rank = q.call.rank
         \/ request.mode = "priority"
  PROVE  r = q
<1>1. r.call \in allowed /\ q.call \in allowed
  BY DEF RunInv, ExecutionInv, CallInv, Settled
<1>2. r.call = q.call
  BY <1>1 DEF RouteInv, AllowedApart, OneOf
<1> QED
  BY <1>2 DEF RunInv, ExecutionInv, CallInv

(* max() over the results of a conflict has one answer.                    *)
LEMMA OneFirstMax ==
  ASSUME RunInv, RouteInv, ConflictInv, NEW id, NEW key,
         Successes(results, id) # {},
         \A r \in Successes(results, id) : key[r] \in Int
  PROVE  \E r \in Successes(results, id) :
           FirstMax(Successes(results, id), key) = {r}
<1> DEFINE S == Successes(results, id)
           Beats(q, r) == \/ key[q] > key[r]
                          \/ key[q] = key[r] /\ q.call.rank < r.call.rank
           R == {p \in S \X S : Beats(p[1], p[2])}
<1>1. S \subseteq results /\ \A r \in S : r.call.id = id
  BY DEF Successes
<1>2. IsFiniteSet(S) /\ S # {}
  BY <1>1, FS_Subset DEF ConflictInv
<1>3. \A r \in S : r.call.rank \in Nat /\ key[r] \in Int
  BY <1>1 DEF RunInv, TypeInv, TypeOK, ToolResult, Candidate
<1>4. /\ \A x \in S : ~Beats(x, x)
      /\ \A x, y, z \in S : Beats(x, y) /\ Beats(y, z) => Beats(x, z)
  <2> HIDE DEF S
  <2> QED
    BY <1>3
<1>5. \A x, y \in S : <<x, y>> \in R <=> Beats(x, y)
  <2> HIDE DEF S, Beats
  <2> QED
    OBVIOUS
<1>6. PICK r \in S : \A q \in S : ~Beats(q, r)
  <2> HIDE DEF S, R, Beats
  <2>1. \E r \in S : \A q \in S : <<q, r>> \notin R
    BY <1>2, <1>4, <1>5, MinimalElement
  <2> QED
    BY <1>5, <2>1
<1>7. ASSUME NEW x \in S
      PROVE  x \in FirstMax(S, key) <=> \A q \in S : ~Beats(q, x)
  <2> HIDE DEF S
  <2> QED
    BY <1>3 DEF FirstMax
<1>8. ASSUME NEW x \in S, \A q \in S : ~Beats(q, x)
      PROVE  x = r
  <2>1. key[x] = key[r] /\ x.call.rank = r.call.rank
    <3>1. ~Beats(x, r) /\ ~Beats(r, x)
      BY <1>6, <1>8
    <3> HIDE DEF S
    <3> QED
      BY <1>3, <3>1
  <2> QED
    BY <1>1, <2>1, ResultsApart
<1>9. FirstMax(S, key) \subseteq S
  BY DEF FirstMax
<1> HIDE DEF S, Beats
<1>10. FirstMax(S, key) = {r}
  BY <1>6, <1>7, <1>8, <1>9
<1> QED
  BY <1>10 DEF S

LEMMA OneWinner ==
  ASSUME RunInv, RouteInv, ConflictInv, NEW id \in conflicts
  PROVE  /\ Successes(results, id) # {}
         /\ \E r \in Successes(results, id) : RuleWinner(id) = {r}
<1> DEFINE S == Successes(results, id)
           priority == [r \in S |-> LivePriority(tools, r.call.tool)]
           freshness == [r \in S |-> r.observed]
<1>1. S # {}
  BY DEF ConflictInv, DetectConflicts
<1>2. \A r \in S : priority[r] \in Int
  BY DEF LivePriority, RunInv, TypeInv, TypeOK, IsRegistry, Entry, Manifest
<1>3. \A r \in S : freshness[r] \in Int
  BY DEF Successes, RunInv, TypeInv, TypeOK, ToolResult
<1>4. /\ \E r \in S : FirstMax(S, priority) = {r}
      /\ \E r \in S : FirstMax(S, freshness) = {r}
  <2> HIDE DEF priority, freshness
  <2> QED
    BY <1>1, <1>2, <1>3, OneFirstMax
<1> QED
  BY <1>1, <1>4 DEF RuleWinner, PriorityWinner, FreshestWinner

(* A step that leaves results, conflicts and resolutions as they are.      *)
LEMMA ConflictFrame ==
  ASSUME ConflictInv, UNCHANGED <<results, conflicts, resolutions>>,
         NotYetChecked' => NotYetChecked,
         node' \in {"resolver", "aggregator", "end"} =>
           node \in {"resolver", "aggregator", "end"},
         node' \in {"aggregator", "end"} => node \in {"aggregator", "end"}
  PROVE  ConflictInv'
  BY DEF ConflictInv, Justified

LEMMA CallConflictStep ==
  ASSUME TypeInv, ConflictInv, NEW c \in allowed, CallStep(c)
  PROVE  ConflictInv'
<1>1. ASSUME NEW r, results' = results \cup {r}, node = "executor",
             UNCHANGED <<node, conflicts, resolutions>>
      PROVE  ConflictInv'
  <2>1. IsFiniteSet(results')
    BY <1>1, FS_AddElement DEF ConflictInv
  <2> QED
    BY <1>1, <2>1 DEF ConflictInv, NotYetChecked, Deciding
<1>2. CASE InvokeTool(c) \/ CancellationEscapes(c) \/ OrphanEnds(c)
  BY <1>2, ConflictFrame
     DEF InvokeTool, CancellationEscapes, OrphanEnds, reportVars, NotYetChecked,
         Deciding
<1>3. CASE InvokeMissing(c)
  BY <1>1, <1>3 DEF InvokeMissing, NextToStart, reportVars
<1>4. ASSUME NEW r, Settle(c, r)
      PROVE  ConflictInv'
  BY <1>1, <1>4 DEF Settle, reportVars
<1>5. CASE ToolSucceeds(c) \/ ToolFails(c)
  BY <1>4, <1>5 DEF ToolSucceeds, ToolFails
<1> QED
  BY <1>2, <1>3, <1>5 DEF CallStep

LEMMA RuleStep ==
  ASSUME RunInv, RouteInv, ConflictInv, ResolveByRule
  PROVE  ConflictInv'
<1>1. /\ UNCHANGED <<results, conflicts, tools, request>>
      /\ node' = "aggregator" /\ node = "resolver"
  BY DEF ResolveByRule, runVars, registryVars
<1>2. resolutions' =
        UNION {{[id |-> id, tool |-> r.call.tool, via |-> request.policy] :
                  r \in RuleWinner(id)} : id \in conflicts}
  BY DEF ResolveByRule
<1>3. \A res \in resolutions' :
        /\ res.id \in conflicts
        /\ \E r \in RuleWinner(res.id) :
             res = [id |-> res.id, tool |-> r.call.tool, via |-> request.policy]
  BY <1>2
<1>4. \A res \in resolutions' :
        /\ res.id \in conflicts
        /\ \E r \in Successes(results, res.id) : r.call.tool = res.tool
  <2> SUFFICES ASSUME NEW res \in resolutions'
               PROVE  /\ res.id \in conflicts
                      /\ \E r \in Successes(results, res.id) :
                           r.call.tool = res.tool
    OBVIOUS
  <2>1. PICK r \in RuleWinner(res.id) :
          res = [id |-> res.id, tool |-> r.call.tool, via |-> request.policy]
    BY <1>3
  <2>2. res.id \in conflicts /\ res.tool = r.call.tool
    BY <1>3, <2>1
  <2> QED
    BY <2>1, <2>2, OneWinner
<1>5. \A p, q \in resolutions' : p.id = q.id => p = q
  <2> SUFFICES ASSUME NEW p \in resolutions', NEW q \in resolutions', p.id = q.id
               PROVE  p = q
    OBVIOUS
  <2>1. PICK r \in RuleWinner(p.id) :
          p = [id |-> p.id, tool |-> r.call.tool, via |-> request.policy]
    BY <1>3
  <2>2. PICK s \in RuleWinner(q.id) :
          q = [id |-> q.id, tool |-> s.call.tool, via |-> request.policy]
    BY <1>3
  <2>3. r = s
    BY <1>3, <2>1, <2>2, OneWinner
  <2> QED
    BY <2>1, <2>2, <2>3
<1>6. conflicts \subseteq {res.id : res \in resolutions'}
  <2> SUFFICES ASSUME NEW id \in conflicts
               PROVE  id \in {res.id : res \in resolutions'}
    OBVIOUS
  <2>1. PICK r : RuleWinner(id) = {r}
    BY OneWinner
  <2> DEFINE res == [id |-> id, tool |-> r.call.tool, via |-> request.policy]
  <2>2. res \in resolutions' /\ res.id = id
    BY <1>2, <2>1
  <2> HIDE DEF res
  <2> QED
    BY <2>2
<1> QED
  BY <1>1, <1>4, <1>5, <1>6 DEF ConflictInv, Justified, NotYetChecked, Deciding

LEMMA ResolveStep ==
  ASSUME ConflictInv, NEW id \in conflicts, NEW via,
         NEW r \in Successes(results, id), Resolve(id, r.call.tool, via)
  PROVE  ConflictInv'
<1> DEFINE new == [id |-> id, tool |-> r.call.tool, via |-> via]
<1>1. /\ resolutions' = resolutions \cup {new} /\ id \in Unresolved
      /\ node' = (IF Unresolved = {id} THEN "aggregator" ELSE "resolver")
      /\ node = "resolver" /\ UNCHANGED <<results, conflicts>>
  BY DEF Resolve, runVars
<1>2. new.id = id /\ new.tool = r.call.tool
  OBVIOUS
<1> HIDE DEF new
<1>3. \A res \in resolutions : res.id # id
  BY <1>1 DEF Unresolved
<1>4. node' = "aggregator" => conflicts \subseteq {res.id : res \in resolutions'}
  BY <1>1, <1>2 DEF Unresolved
<1> QED
  BY <1>1, <1>2, <1>3, <1>4 DEF ConflictInv, Justified, NotYetChecked, Deciding

LEMMA StepConflictInv ==
  RunInv /\ RouteInv /\ ConflictInv /\ [Next]_vars => ConflictInv'
<1> SUFFICES ASSUME RunInv, RouteInv, ConflictInv, [Next]_vars
             PROVE  ConflictInv'
  OBVIOUS
<1>1. CASE DecideStep \/ ModelRaises \/ StartBatch \/ FinishExecutor
  BY <1>1, ConflictFrame
     DEF DecideStep, PlannerNode, RouterNode, PermissionGateNode, ModelRaises,
         StartBatch, FinishExecutor, runVars, reportVars, NotYetChecked, Deciding
<1>2. CASE \E c \in allowed : CallStep(c)
  BY <1>2, CallConflictStep DEF RunInv
<1>3. CASE CheckConflictsNode
  BY <1>3 DEF CheckConflictsNode, runVars, ConflictInv, Justified, NotYetChecked,
              Deciding
<1>4. CASE ResolveByRule
  BY <1>4, RuleStep
<1>5. ASSUME NEW id \in conflicts, ModelChooses(id) \/ FallBackToPriority(id)
      PROVE  ConflictInv'
  BY <1>5, ResolveStep DEF ModelChooses, FallBackToPriority, PriorityWinner,
                           FirstMax
<1>6. ASSUME NEW outcome, AggregatorNode(outcome)
      PROVE  ConflictInv'
  BY <1>6, ConflictFrame DEF AggregatorNode, runVars, NotYetChecked, Deciding
<1>7. CASE EditStep \/ UNCHANGED vars
  BY <1>7, ConflictFrame
     DEF EditStep, RegisterTool, UnregisterTool, vars, runVars, reportVars,
         NotYetChecked, Deciding
<1> QED
  BY <1>1, <1>2, <1>3, <1>4, <1>5, <1>6, <1>7
     DEF Next, GraphStep, ExecuteStep, ReportStep, Returned

LEMMA InitConflictInv == Init => ConflictInv
  BY FS_EmptySet DEF Init, ConflictInv, NotYetChecked, Deciding

LEMMA ReportInvariant == Spec => []ReportInv
  BY RouteInvariant, InitConflictInv, StepConflictInv, PTL DEF Spec, ReportInv

(* A tool's results on a subtask are one result, so the digest's next()    *)
(* finds the winner, and finds a success.                                  *)
THEOREM WinnersAreSuccesses == Spec => []WinnerIsASuccess
<1>1. ReportInv => WinnerIsASuccess
  <2> SUFFICES ASSUME ReportInv, NEW res \in resolutions
               PROVE  /\ res.id \in conflicts
                      /\ \E r \in results : r.call.id = res.id /\ r.call.tool = res.tool
                      /\ \A r \in results :
                           r.call.id = res.id /\ r.call.tool = res.tool => r.ok
    BY DEF WinnerIsASuccess
  <2>1. res.id \in conflicts
    BY DEF ReportInv, ConflictInv, Justified
  <2>2. PICK s \in results : s.ok /\ s.call.id = res.id /\ s.call.tool = res.tool
    BY DEF ReportInv, ConflictInv, Justified, Successes
  <2>3. \A r \in results :
          r.call.id = res.id /\ r.call.tool = res.tool => r = s
    BY <2>2, ResultsApart DEF ReportInv
  <2> QED
    BY <2>1, <2>2, <2>3
<1> QED
  BY <1>1, ReportInvariant, PTL

(* However many candidates disagree and however the registry changes       *)
(* meanwhile, each conflict reaches the digest with one resolution.        *)
THEOREM ConflictsResolveOnce == Spec => []EveryConflictResolvedOnce
<1>1. ReportInv => EveryConflictResolvedOnce
  <2> SUFFICES ASSUME ReportInv, node \in {"aggregator", "end"},
                      NEW id \in conflicts
               PROVE  \E res \in resolutions :
                        {q \in resolutions : q.id = id} = {res}
    BY DEF EveryConflictResolvedOnce
  <2>1. PICK res \in resolutions : res.id = id
    BY DEF ReportInv, ConflictInv
  <2>2. \A q \in resolutions : q.id = id => q = res
    BY <2>1 DEF ReportInv, ConflictInv
  <2> QED
    BY <2>1, <2>2
<1> QED
  BY <1>1, ReportInvariant, PTL

(* A request in PRIORITY mode makes one call per subtask, so that nothing  *)
(* disagrees, for any registry and any ties of priority.                   *)
THEOREM PriorityModeAgrees == Spec => []PriorityModeNeverConflicts
<1>1. ReportInv => PriorityModeNeverConflicts
  <2> SUFFICES ASSUME ReportInv, request.mode = "priority", NEW id \in conflicts
               PROVE  FALSE
    BY DEF PriorityModeNeverConflicts
  <2>1. PICK r \in Successes(results, id), q \in Successes(results, id) :
          r.data # q.data
    BY DEF ReportInv, ConflictInv, DetectConflicts
  <2>2. r = q
    BY <2>1, ResultsApart DEF ReportInv, Successes
  <2> QED
    BY <2>1, <2>2
<1> QED
  BY <1>1, ReportInvariant, PTL

-----------------------------------------------------------------------------
(* The digest.                                                             *)

(* A line of the digest is about one result, and of a conflict it is about *)
(* its winner.                                                             *)
LEMMA LineSource ==
  ASSUME NEW l \in ResultLines
  PROVE  \E i \in DOMAIN plan, r \in results :
           /\ l = Line(plan[i], r) /\ r.call.id = plan[i].id
           /\ plan[i].id \in conflicts =>
                \E res \in resolutions :
                  res.id = plan[i].id /\ r.call.tool = res.tool
<1>1. PICK i \in DOMAIN plan : l \in SubtaskLines(plan[i])
  BY DEF ResultLines
<1>2. CASE plan[i].id \in conflicts
  <2>1. PICK res \in resolutions :
          /\ res.id = plan[i].id
          /\ \E r \in WinnerOf(res) : l = Line(plan[i], r)
    BY <1>1, <1>2 DEF SubtaskLines
  <2>2. PICK r \in WinnerOf(res) : l = Line(plan[i], r)
    BY <2>1
  <2> QED
    BY <1>2, <2>1, <2>2 DEF WinnerOf
<1>3. CASE plan[i].id \notin conflicts
  BY <1>1, <1>3 DEF SubtaskLines
<1> QED
  BY <1>2, <1>3

(* The digest never gives two answers for one subtask, repeated ids        *)
(* included.                                                               *)
THEOREM DigestGivesOneAnswer == Spec => []OneAnswerPerSubtask
<1>1. ReportInv => OneAnswerPerSubtask
  <2> SUFFICES ASSUME ReportInv, Digested,
                      NEW l \in ResultLines, NEW m \in ResultLines,
                      l.ok, m.ok, l.id = m.id
               PROVE  l.data = m.data
    BY DEF OneAnswerPerSubtask
  <2>1. PICK i \in DOMAIN plan, r \in results :
          /\ l = Line(plan[i], r) /\ r.call.id = plan[i].id
          /\ plan[i].id \in conflicts =>
               \E res \in resolutions :
                 res.id = plan[i].id /\ r.call.tool = res.tool
    BY LineSource
  <2>2. PICK j \in DOMAIN plan, q \in results :
          /\ m = Line(plan[j], q) /\ q.call.id = plan[j].id
          /\ plan[j].id \in conflicts =>
               \E res \in resolutions :
                 res.id = plan[j].id /\ q.call.tool = res.tool
    BY LineSource
  <2>3. /\ l.id = r.call.id /\ m.id = q.call.id /\ r.call.id = q.call.id
        /\ l.data = r.data /\ m.data = q.data /\ r.ok /\ q.ok
    BY <2>1, <2>2 DEF Line
  <2>4. CASE r.call.id \in conflicts
    <3>1. r.call.tool = q.call.tool
      BY <2>1, <2>2, <2>3, <2>4 DEF ReportInv, ConflictInv
    <3> QED
      BY <2>3, <3>1, ResultsApart DEF ReportInv
  <2>5. CASE r.call.id \notin conflicts
    BY <2>3, <2>5 DEF ReportInv, ConflictInv, Digested, DetectConflicts, Successes
  <2> QED
    BY <2>3, <2>4, <2>5
<1> QED
  BY <1>1, ReportInvariant, PTL

(* With unique ids, a call is made for the subtask that has its id.        *)
LEMMA CallOfSubtask ==
  ASSUME RouteInv, PastGate, UniqueIds(plan), NEW i \in DOMAIN plan,
         NEW c \in AllCandidates(candidates), c.id = plan[i].id
  PROVE  c.cap = plan[i].cap
<1>1. PICK id \in DOMAIN candidates : c \in candidates[id]
  BY DEF AllCandidates
<1>2. PICK j \in DOMAIN plan : plan[j].id = c.id /\ plan[j].cap = c.cap
  BY <1>1 DEF RouteInv, CurrentRouting, Routed
<1>3. i = j
  BY <1>2 DEF UniqueIds
<1> QED
  BY <1>2, <1>3

(* With unique ids, every value in the digest is one that this tool        *)
(* returned for this subtask and capability.                               *)
THEOREM DigestTellsTheTruth == Spec => []DigestAccurateForUniqueIds
<1>1. ReportInv => DigestAccurateForUniqueIds
  <2> SUFFICES ASSUME ReportInv, UniqueIds(plan), Digested,
                      NEW l \in ResultLines
               PROVE  \E r \in results :
                        /\ r.call.id = l.id /\ r.call.tool = l.tool
                        /\ r.call.cap = l.cap
                        /\ r.ok = l.ok /\ r.data = l.data
    BY DEF DigestAccurateForUniqueIds, DigestAccurate
  <2>1. PICK i \in DOMAIN plan, r \in results :
          l = Line(plan[i], r) /\ r.call.id = plan[i].id
    BY LineSource
  <2>2. PastGate
    BY DEF Digested, PastGate
  <2>3. r.call \in AllCandidates(candidates)
    <3>1. r.call \in allowed
      BY DEF ReportInv, RunInv, ExecutionInv, CallInv, Settled
    <3> QED
      BY <2>2, <3>1 DEF ReportInv, RouteInv, GateSplits, GateAllowed
  <2>4. r.call.cap = plan[i].cap
    BY <2>1, <2>2, <2>3, CallOfSubtask DEF ReportInv
  <2> QED
    BY <2>1, <2>4 DEF Line
<1> QED
  BY <1>1, ReportInvariant, PTL

(* Nothing the final plan asked for goes unmentioned: each subtask has a   *)
(* value, a failure, a denial or an unroutable line in the digest.         *)
THEOREM NothingIsLost == Spec => []EverySubtaskAccounted
<1>1. ReportInv => EverySubtaskAccounted
  <2> SUFFICES ASSUME ReportInv, Digested, UniqueIds(plan),
                      NEW i \in DOMAIN plan
               PROVE  \/ \E l \in ResultLines : l.id = plan[i].id
                      \/ \E d \in DeniedLines : d.cap = plan[i].cap
                      \/ plan[i].cap \in UnroutableLines
    BY DEF EverySubtaskAccounted
  <2> DEFINE id == plan[i].id
  <2>1. /\ PastGate /\ PastExecutor
        /\ Routed(candidates, unroutable, plan, request.mode)
    BY DEF Digested, PastGate, PastExecutor, ReportInv, RouteInv, CurrentRouting
  <2>2. CASE id \in DOMAIN candidates
    <3>1. PICK c \in candidates[id] : c.id = id
      BY <2>1, <2>2 DEF Routed
    <3>2. c \in AllCandidates(candidates)
      BY <2>2, <3>1 DEF AllCandidates
    <3>3. c.cap = plan[i].cap
      BY <2>1, <3>1, <3>2, CallOfSubtask DEF ReportInv
    <3>4. CASE c.scope \notin request.scope
      <4>1. c \in allDenials
        BY <2>1, <3>2, <3>4 DEF ReportInv, RouteInv, GateSplits, GateDenials
      <4>2. [tool |-> c.tool, cap |-> c.cap, scope |-> c.scope] \in DeniedLines
        BY <4>1 DEF DeniedLines
      <4> QED
        BY <3>3, <4>2
    <3>5. CASE c.scope \in request.scope
      <4>1. c \in allowed
        BY <2>1, <3>2, <3>5 DEF ReportInv, RouteInv, GateSplits, GateAllowed
      <4>2. PICK r \in results : r.call = c
        BY <2>1, <4>1 DEF ReportInv, RunInv, ExecutionInv,
                          EveryAllowedCallSettles, Settled
      <4>3. CASE id \notin conflicts
        <5>1. Line(plan[i], r) \in SubtaskLines(plan[i])
          BY <3>1, <4>2, <4>3 DEF SubtaskLines
        <5> QED
          BY <5>1 DEF ResultLines, Line
      <4>4. CASE id \in conflicts
        <5>1. PICK res \in resolutions : res.id = id
          BY <4>4 DEF ReportInv, ConflictInv, Digested
        <5>2. PICK s \in results : s.call.id = id /\ s.call.tool = res.tool
          BY <5>1 DEF ReportInv, ConflictInv, Justified, Successes
        <5>3. s \in WinnerOf(res)
          BY <5>1, <5>2 DEF WinnerOf
        <5>4. Line(plan[i], s) \in SubtaskLines(plan[i])
          BY <4>4, <5>1, <5>3 DEF SubtaskLines
        <5> QED
          BY <5>4 DEF ResultLines, Line
      <4> QED
        BY <4>3, <4>4
    <3> QED
      BY <3>4, <3>5
  <2>3. CASE id \in unroutable
    <3>1. LastWithId(plan, DOMAIN plan, id) = {i}
      <4>1. \A j \in DOMAIN plan : plan[j].id = id => j = i
        BY DEF UniqueIds
      <4>2. i \in Nat
        BY DEF ReportInv, RunInv, TypeInv, TypeOK
      <4> QED
        BY <4>1, <4>2 DEF LastWithId
    <3>2. plan[i].cap \in {plan[j].cap : j \in LastWithId(plan, DOMAIN plan, id)}
      BY <3>1
    <3> QED
      BY <2>3, <3>2 DEF UnroutableLines
  <2> QED
    BY <2>1, <2>2, <2>3 DEF Routed
<1> QED
  BY <1>1, ReportInvariant, PTL

-----------------------------------------------------------------------------
(* What the documentation says of a run, on the condition under which the  *)
(* code keeps it.                                                          *)

(* Callers give every tool a priority above 0, as all bundled tools and    *)
(* the registry's default do: 0 is what _resolve_priority takes for a tool *)
(* that is not registered.                                                 *)
PositivePriorities == \A n \in Tools : \A m \in Manifests[n] : m.priority > 0

(* A tool that is gone wins by priority only if all successful candidates  *)
(* of the conflict are gone.                                               *)
LEMMA GoneWinner ==
  ASSUME TypeInv, PositivePriorities, NEW group, NEW w \in PriorityWinner(group, tools),
         w.call.tool \notin DOMAIN tools,
         NEW r \in group, \A q \in group : q.call.tool \in Tools
  PROVE  r.call.tool \notin DOMAIN tools
<1> SUFFICES ASSUME r.call.tool \in DOMAIN tools PROVE FALSE
  OBVIOUS
<1> DEFINE key(q) == LivePriority(tools, q.call.tool)
<1>1. w \in group /\ (key(w) > key(r) \/ key(w) = key(r))
  BY DEF PriorityWinner, FirstMax
<1>2. key(w) = 0
  BY DEF LivePriority
<1>3. key(r) \in Int /\ key(r) > 0
  <2>1. tools[r.call.tool].manifest \in Manifests[r.call.tool]
    BY DEF TypeInv, RegistryInv
  <2>2. tools[r.call.tool].manifest.priority \in Int
    BY DEF TypeInv, TypeOK, IsRegistry, Entry, Manifest
  <2> QED
    BY <2>1, <2>2 DEF LivePriority, PositivePriorities
<1> HIDE DEF key
<1> QED
  BY <1>1, <1>2, <1>3

(* With such priorities, whoever wins by priority or by the fallback is    *)
(* registered as long as a successful candidate of the conflict is         *)
(* (resolver._resolve_priority).                                           *)
THEOREM RegisteredToolsWin ==
  ASSUME PositivePriorities
  PROVE  Spec => /\ [][WinnerRegistered({"priority", "fallback"})]_vars
                 /\ RegisteredWinner
<1> DEFINE Wins == WinnerRegistered({"priority", "fallback"})
<1>1. TypeInv /\ [Next]_vars => [Wins]_vars
  <2> SUFFICES ASSUME TypeInv, [Next]_vars,
                      NEW res \in resolutions', res \notin resolutions,
                      res.via \in {"priority", "fallback"},
                      res.tool \notin DOMAIN tools,
                      NEW r \in Successes(results, res.id)
               PROVE  r.call.tool \notin DOMAIN tools
    BY DEF WinnerRegistered
  <2>1. \A id : \A q \in Successes(results, id) : q.call.tool \in Tools
    BY DEF Successes, TypeInv, TypeOK, ToolResult, Candidate
  <2>2. CASE ResolveByRule
    <3>1. PICK id \in conflicts :
            \E w \in RuleWinner(id) :
              res = [id |-> id, tool |-> w.call.tool, via |-> request.policy]
      BY <2>2 DEF ResolveByRule
    <3>2. PICK w \in RuleWinner(id) :
            res = [id |-> id, tool |-> w.call.tool, via |-> request.policy]
      BY <3>1
    <3>3. res.id = id /\ res.tool = w.call.tool /\ res.via = request.policy
      BY <3>2
    <3>4. request.policy = "priority"
      BY <2>2, <3>3, RequestsTyped
         DEF ResolveByRule, TypeInv, TypeOK, Request, Policies
    <3>5. w \in PriorityWinner(Successes(results, id), tools)
      BY <3>2, <3>4 DEF RuleWinner
    <3> QED
      BY <2>1, <3>3, <3>5, GoneWinner, PositivePriorities
  <2>3. ASSUME NEW id \in conflicts, FallBackToPriority(id)
        PROVE  r.call.tool \notin DOMAIN tools
    <3>1. PICK w \in PriorityWinner(Successes(results, id), tools) :
            Resolve(id, w.call.tool, "fallback")
      BY <2>3 DEF FallBackToPriority
    <3>2. res.id = id /\ res.tool = w.call.tool
      BY <3>1 DEF Resolve
    <3> QED
      BY <2>1, <3>1, <3>2, GoneWinner, PositivePriorities
  <2>4. ASSUME NEW id \in conflicts, ModelChooses(id)
        PROVE  FALSE
    BY <2>4 DEF ModelChooses, Resolve
  <2>5. CASE UNCHANGED resolutions
    BY <2>5
  <2>6. DecideStep \/ ExecuteStep \/ ModelRaises \/ EditStep \/ UNCHANGED vars
          => UNCHANGED resolutions
    BY DEF DecideStep, PlannerNode, RouterNode, PermissionGateNode, ExecuteStep,
           StartBatch, CallStep, InvokeTool, InvokeMissing, ToolSucceeds,
           ToolFails, Settle, CancellationEscapes, OrphanEnds, FinishExecutor,
           ModelRaises, EditStep, RegisterTool, UnregisterTool, reportVars, vars
  <2>7. CheckConflictsNode \/ (\E outcome : AggregatorNode(outcome))
          => UNCHANGED resolutions
    BY DEF CheckConflictsNode, AggregatorNode
  <2> QED
    BY <2>2, <2>3, <2>4, <2>5, <2>6, <2>7
       DEF Next, GraphStep, ReportStep, Returned
<1>2. [Wins]_vars => [WinnerRegistered({"fallback"})]_vars
  BY DEF WinnerRegistered
<1>3. Spec => []TypeInv
  BY InitTypeInv, StepTypeInv, PTL DEF Spec
<1> HIDE DEF Wins
<1>4. Spec => [][Wins]_vars
  BY <1>1, <1>3, PTL DEF Spec
<1> QED
  BY <1>2, <1>4, PTL DEF RegisteredWinner, Wins

(* All providers of a capability ask for one scope, as the bundled ones    *)
(* do.                                                                     *)
UniformScopes ==
  \A n, k \in Tools : \A m \in Manifests[n], l \in Manifests[k] :
    m.caps \cap l.caps # {} => m.scope = l.scope

(* A candidate has capability and scope of a manifest of its tool.         *)
OfferedAs(c) ==
  \E m \in Manifests[c.tool] : c.cap \in m.caps /\ m.scope = c.scope

OfferInv ==
  /\ \A c \in AllCandidates(candidates) \cup allowed \cup pendingDenials :
       OfferedAs(c)
  /\ \A c \in allowed : c.scope \in request.scope
  /\ \A d \in pendingDenials : d.scope \notin request.scope

LEMMA RouteOffer ==
  ASSUME TypeInv, NEW mode,
         NEW c \in AllCandidates(RouteCandidates(plan, tools, mode))
  PROVE  OfferedAs(c)
<1> DEFINE routable == Routable(plan, tools)
           routed == RouteCandidates(plan, tools, mode)
           last(id) == LastWithId(plan, routable, id)
<1>1. PICK id \in DOMAIN routed : c \in routed[id]
  BY DEF AllCandidates
<1>2. routed[id] = UNION {CandidatesFor(plan[i], tools, mode) : i \in last(id)}
  BY DEF RouteCandidates
<1>3. PICK i \in last(id) : c \in CandidatesFor(plan[i], tools, mode)
  <2> HIDE DEF routed, last
  <2> QED
    BY <1>1, <1>2
<1>4. /\ c.tool \in DOMAIN tools /\ c.scope = tools[c.tool].manifest.scope
      /\ c.cap \in tools[c.tool].manifest.caps
  BY <1>3 DEF CandidatesFor, Chosen, Offers
<1> QED
  BY <1>4 DEF OfferedAs, TypeInv, RegistryInv

LEMMA StepOfferInv == TypeInv /\ OfferInv /\ [Next]_vars => OfferInv'
<1> SUFFICES ASSUME TypeInv, OfferInv, [Next]_vars PROVE OfferInv'
  OBVIOUS
<1>1. CASE PlannerNode
  BY <1>1 DEF PlannerNode, routeVars, gateVars, OfferInv
<1>2. CASE RouterNode
  BY <1>2, RouteOffer DEF RouterNode, planVars, gateVars, OfferInv
<1>3. CASE PermissionGateNode
  <2>1. /\ allowed' = GateAllowed(candidates, request.scope)
        /\ \/ pendingDenials' = GateDenials(candidates, request.scope)
           \/ UNCHANGED pendingDenials
        /\ candidates' = candidates /\ request' = request
    BY <1>3 DEF PermissionGateNode, routeVars
  <2> QED
    BY <2>1 DEF OfferInv, GateAllowed, GateDenials
<1>4. CASE UNCHANGED <<request, candidates, allowed, pendingDenials>>
  BY <1>4 DEF OfferInv
<1>5. CASE ExecuteStep
  BY <1>4, <1>5
     DEF ExecuteStep, StartBatch, CallStep, InvokeTool, InvokeMissing,
         ToolSucceeds, ToolFails, Settle, CancellationEscapes, OrphanEnds,
         FinishExecutor, planVars, routeVars, gateVars
<1>6. CASE ReportStep
  BY <1>4, <1>6
     DEF ReportStep, CheckConflictsNode, ResolveByRule, ModelChooses,
         FallBackToPriority, Resolve, AggregatorNode, planVars, routeVars,
         gateVars
<1>7. CASE ModelRaises \/ EditStep \/ UNCHANGED vars
  BY <1>4, <1>7 DEF ModelRaises, EditStep, RegisterTool, UnregisterTool, vars,
                    planVars, routeVars, gateVars
<1> QED
  BY <1>1, <1>2, <1>3, <1>5, <1>6, <1>7 DEF Next, GraphStep, DecideStep, Returned

(* With uniform scopes, no capability the replan prompt forbids is one     *)
(* this session was allowed to use (planner.build_system_prompt).          *)
THEOREM UniformScopesMakeReplansTruthful ==
  ASSUME UniformScopes
  PROVE  Spec => []ReplanPromptTruthful
<1>1. TypeInv /\ OfferInv => ReplanPromptTruthful
  <2> SUFFICES ASSUME TypeInv, OfferInv, NEW c \in allowed,
                      NEW d \in pendingDenials, c.cap = d.cap
               PROVE  FALSE
    BY DEF ReplanPromptTruthful, PromptForbids
  <2>1. c.tool \in Tools /\ d.tool \in Tools
    BY DEF TypeInv, TypeOK, Candidate
  <2>2. PICK m \in Manifests[c.tool] : c.cap \in m.caps /\ m.scope = c.scope
    BY DEF OfferInv, OfferedAs
  <2>3. PICK l \in Manifests[d.tool] : d.cap \in l.caps /\ l.scope = d.scope
    BY DEF OfferInv, OfferedAs
  <2>4. m.scope = l.scope
    BY <2>1, <2>2, <2>3, UniformScopes DEF UniformScopes
  <2> QED
    BY <2>2, <2>3, <2>4 DEF OfferInv
<1>2. Init => OfferInv
  BY DEF Init, OfferInv, AllCandidates
<1> QED
  BY <1>1, <1>2, InitTypeInv, StepTypeInv, StepOfferInv, PTL DEF Spec

(* No tool lets a CancelledError out of its call.                          *)
NoCancellationEscapes == \A c \in allowed : ~CancellationEscapes(c)

(* A run raises before its first batch or when all calls have a result.    *)
RaisesOutsideBatches == node = "raised" => batches = <<>> \/ Settled = allowed

LEMMA StepRaisesOutsideBatches ==
  ASSUME RunInv, RaisesOutsideBatches, [Next]_vars, [NoCancellationEscapes]_vars
  PROVE  RaisesOutsideBatches'
<1>1. CASE ModelRaises
  <2>1. node = "planner" \/ PastExecutor
    BY <1>1 DEF ModelRaises, PastExecutor
  <2>2. batches = <<>> \/ Settled = allowed
    BY <2>1 DEF RunInv, TypeInv, Idle, Deciding, ExecutionInv,
                EveryAllowedCallSettles
  <2> QED
    BY <1>1, <2>2 DEF ModelRaises, gateVars, runVars, RaisesOutsideBatches, Settled
<1>2. CASE node = "raised"
  <2>1. UNCHANGED <<node, batches, results, allowed>>
    BY <1>2 DEF Next, GraphStep, DecideStep, PlannerNode, RouterNode,
                PermissionGateNode, ExecuteStep, StartBatch, CallStep,
                InvokeTool, InvokeMissing, NextToStart, ToolSucceeds, ToolFails,
                Settle, CancellationEscapes, OrphanEnds, FinishExecutor,
                ReportStep, CheckConflictsNode, ResolveByRule, ModelChooses,
                FallBackToPriority, Resolve, AggregatorNode, ModelRaises,
                EditStep, RegisterTool, UnregisterTool, Over, Returned, vars,
                gateVars, runVars
  <2> QED
    BY <2>1 DEF RaisesOutsideBatches, Settled
<1>3. ASSUME NEW c \in allowed, CancellationEscapes(c)
      PROVE  FALSE
  <2>1. ~UNCHANGED vars
    BY <1>3 DEF CancellationEscapes, vars
  <2> QED
    BY <1>3, <2>1 DEF NoCancellationEscapes
<1>4. ASSUME node # "raised", ~ModelRaises
      PROVE  node' # "raised"
  BY <1>3, <1>4
     DEF Next, GraphStep, DecideStep, PlannerNode, RouterNode,
         PermissionGateNode, ExecuteStep, StartBatch, CallStep, InvokeTool,
         InvokeMissing, ToolSucceeds, ToolFails, Settle, OrphanEnds,
         FinishExecutor, ReportStep, CheckConflictsNode, ResolveByRule,
         ModelChooses, FallBackToPriority, Resolve, AggregatorNode, EditStep,
         RegisterTool, UnregisterTool, Returned, vars
<1> QED
  BY <1>1, <1>2, <1>4 DEF RaisesOutsideBatches

(* An escaping CancelledError is the one thing that lets a tool take down  *)
(* its batch mates: without it a run raises before the first batch or      *)
(* after the last call has its result (_invoke, _run_batch).               *)
THEOREM OnlyCancellationBreaksBatches ==
  Spec /\ [][NoCancellationEscapes]_vars => [](RaisesOutsideBatches /\ FaultIsolation)
<1>1. Init => RaisesOutsideBatches
  BY DEF Init, RaisesOutsideBatches
<1>2. Spec => []RunInv
  BY RouteInvariant, PTL
<1>3. RaisesOutsideBatches => FaultIsolation
  BY DEF RaisesOutsideBatches, FaultIsolation, BatchCalls
<1> QED
  BY <1>1, <1>2, <1>3, StepRaisesOutsideBatches, PTL DEF Spec
=============================================================================
