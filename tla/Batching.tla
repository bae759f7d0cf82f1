------------------------------ MODULE Batching ------------------------------
(***************************************************************************)
(* The executor's dependency graph and one round of its batched Kahn       *)
(* algorithm.  deps maps each node to the nodes it depends on; remaining   *)
(* is the set of nodes no batch has taken yet, so done is the rest.        *)
(***************************************************************************)

(* Mutant of ReadyIds: one finished dependency is enough.                  *)
SomeDependencyDone(deps, remaining) ==
  {id \in remaining : deps[id] = {} \/ ~(deps[id] \subseteq remaining)}

(* Nodes whose dependencies all lie in earlier batches.                    *)
ReadyIds(deps, remaining) ==
  {id \in remaining : deps[id] \subseteq DOMAIN deps \ remaining}

(* Mutant of NextBatch: one ready node at a time.                          *)
OneReadyId(deps, remaining) ==
  LET ready == ReadyIds(deps, remaining)
  IN  IF ready = {} THEN remaining ELSE {CHOOSE id \in ready : TRUE}

(* Mutant of NextBatch: the cycle case takes every node again.             *)
DumpsEveryNode(deps, remaining) ==
  LET ready == ReadyIds(deps, remaining)
  IN  IF ready = {} THEN DOMAIN deps ELSE ready

(* The next batch; on a cycle, everything that is left.                    *)
NextBatch(deps, remaining) ==
  LET ready == ReadyIds(deps, remaining)
  IN  IF ready = {} THEN remaining ELSE ready

(* The nodes that are on a cycle or depend on one: the largest set whose   *)
(* every member depends on a member.                                       *)
Stuck(deps) ==
  UNION {S \in SUBSET DOMAIN deps : \A id \in S : deps[id] \cap S # {}}
=============================================================================
