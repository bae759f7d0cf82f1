----------------------------- MODULE TopoBatches -----------------------------
(***************************************************************************)
(* _topo_batches by itself: the loop that cuts a dependency graph into     *)
(* batches, for every graph on a set of nodes, cyclic ones included.       *)
(***************************************************************************)
EXTENDS Batching, Naturals, Sequences

CONSTANT Nodes

VARIABLES
  deps,       (* the argument                                              *)
  remaining,
  batches
tvars == <<deps, remaining, batches>>

TopoTypeOK ==
  /\ deps \in [Nodes -> SUBSET Nodes]
  /\ remaining \subseteq Nodes
  /\ batches \in Seq(SUBSET Nodes)

TopoInit ==
  /\ deps \in [Nodes -> SUBSET Nodes]
  /\ remaining = Nodes
  /\ batches = <<>>

(* Mutant of TakeBatch: the loop has no answer to a cycle.                 *)
TakeReadyBatch ==
  /\ ReadyIds(deps, remaining) # {}
  /\ batches' = Append(batches, ReadyIds(deps, remaining))
  /\ remaining' = remaining \ ReadyIds(deps, remaining)
  /\ UNCHANGED deps

(* One turn of the while loop; the break leaves nothing to take.           *)
TakeBatch ==
  /\ remaining # {}
  /\ batches' = Append(batches, NextBatch(deps, remaining))
  /\ remaining' = remaining \ NextBatch(deps, remaining)
  /\ UNCHANGED deps

Done == remaining = {} /\ UNCHANGED tvars

TopoNext == TakeBatch \/ Done

TopoSpec == TopoInit /\ [][TopoNext]_tvars /\ WF_tvars(TakeBatch)

-----------------------------------------------------------------------------
Before(k) == UNION {batches[j] : j \in 1..k - 1}

(* No node is lost or batched twice, no batch is empty ("every node").     *)
EveryNodeOnce ==
  /\ remaining = Nodes \ Before(Len(batches) + 1)
  /\ \A k \in DOMAIN batches : batches[k] # {} /\ batches[k] \cap Before(k) = {}

(* A node that no cycle holds up is batched after all it depends on, and   *)
(* as early as that allows: something it depends on is in the batch just   *)
(* before.                                                                 *)
EarliestBatch ==
  \A k \in DOMAIN batches : \A id \in batches[k] \ Stuck(deps) :
    /\ deps[id] \subseteq Before(k)
    /\ k > 1 => deps[id] \cap batches[k - 1] # {}

(* The nodes held up by a cycle, and no others, share the last batch       *)
(* ("dumping any remaining nodes as a last batch").                        *)
CycleIsDumpedLast ==
  \A k \in DOMAIN batches :
    batches[k] \cap Stuck(deps) # {} =>
      batches[k] = Stuck(deps) /\ remaining = {} /\ k = Len(batches)

(* The loop ends, whatever the graph.                                      *)
LoopEnds == <>(remaining = {})
=============================================================================
