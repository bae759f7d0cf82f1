-------------------------- MODULE TopoBatchesProofs --------------------------
(***************************************************************************)
(* Proofs about _topo_batches, for every set of nodes and every dependency *)
(* graph on it.                                                            *)
(***************************************************************************)
EXTENDS TopoBatches, TLAPS

(* All that a cycle holds up waits to the end.                             *)
StuckRemain == remaining # {} => Stuck(deps) \subseteq remaining

(* What is left was not ready for the last batch.                          *)
NotReadyBefore ==
  batches # <<>> =>
    \A id \in remaining : ~(deps[id] \subseteq Before(Len(batches)))

TopoInv ==
  /\ TopoTypeOK
  /\ EveryNodeOnce
  /\ EarliestBatch
  /\ CycleIsDumpedLast
  /\ StuckRemain
  /\ NotReadyBefore

-----------------------------------------------------------------------------
(* A batch is not empty and comes out of what remains.                     *)
LEMMA NextBatchTakesSome ==
  ASSUME NEW graph, NEW rest, rest # {}
  PROVE  NextBatch(graph, rest) # {} /\ NextBatch(graph, rest) \subseteq rest
  BY DEF NextBatch, ReadyIds

(* What a cycle holds up is never ready while all of it remains.           *)
LEMMA StuckIsNotReady ==
  ASSUME NEW graph, NEW rest, Stuck(graph) \subseteq rest
  PROVE  ReadyIds(graph, rest) \cap Stuck(graph) = {}
<1> SUFFICES ASSUME NEW id \in ReadyIds(graph, rest), id \in Stuck(graph)
             PROVE  FALSE
  OBVIOUS
<1>1. PICK S \in SUBSET DOMAIN graph :
        id \in S /\ \A other \in S : graph[other] \cap S # {}
  BY DEF Stuck
<1>2. S \subseteq rest
  BY <1>1 DEF Stuck
<1> QED
  BY <1>1, <1>2 DEF ReadyIds

(* If nothing is ready, all that remains is held up by a cycle.            *)
LEMMA NothingReadyIsStuck ==
  ASSUME NEW N, NEW graph \in [N -> SUBSET N], NEW rest \in SUBSET N,
         ReadyIds(graph, rest) = {}
  PROVE  rest \subseteq Stuck(graph)
<1>1. \A id \in rest : graph[id] \cap rest # {}
  BY DEF ReadyIds
<1> QED
  BY <1>1 DEF Stuck

(* What a turn of the loop does to the batches begun so far.               *)
LEMMA AppendedBatch ==
  ASSUME TopoTypeOK, NEW B \in SUBSET Nodes, batches' = Append(batches, B)
  PROVE  /\ Len(batches) \in Nat /\ Len(batches') = Len(batches) + 1
         /\ DOMAIN batches = 1..Len(batches)
         /\ DOMAIN batches' = 1..Len(batches) + 1
         /\ \A k \in 1..Len(batches) : batches'[k] = batches[k]
         /\ batches'[Len(batches) + 1] = B
         /\ \A k \in 1..Len(batches) + 1 : Before(k)' = Before(k)
         /\ Before(Len(batches) + 1)' = Before(Len(batches) + 1) \cup B
<1>1. /\ Len(batches) \in Nat /\ Len(batches') = Len(batches) + 1
      /\ DOMAIN batches = 1..Len(batches)
      /\ DOMAIN batches' = 1..Len(batches) + 1
      /\ \A k \in 1..Len(batches) : batches'[k] = batches[k]
      /\ batches'[Len(batches) + 1] = B
  BY DEF TopoTypeOK
<1>2. \A k \in 1..Len(batches) + 1 : Before(k)' = Before(k)
  <2> TAKE k \in 1..Len(batches) + 1
  <2>1. \A j \in 1..k - 1 : batches'[j] = batches[j]
    BY <1>1
  <2> QED
    BY <2>1 DEF Before
<1>3. Before(Len(batches) + 1)' = Before(Len(batches) + 1) \cup B
  <2>1. 1..(Len(batches') + 1) - 1 = (1..(Len(batches) + 1) - 1) \cup {Len(batches) + 1}
    BY <1>1
  <2>2. \A j \in 1..(Len(batches) + 1) - 1 : batches'[j] = batches[j]
    BY <1>1
  <2>3. Before(Len(batches) + 1)'
          = UNION {batches'[j] : j \in 1..(Len(batches') + 1) - 1}
    BY DEF Before
  <2>4. ASSUME NEW x
        PROVE  x \in Before(Len(batches) + 1)' <=> x \in Before(Len(batches) + 1) \cup B
    <3>1. x \in Before(Len(batches) + 1)'
            <=> \E j \in 1..(Len(batches') + 1) - 1 : x \in batches'[j]
      BY <2>3
    <3>2. x \in Before(Len(batches) + 1)
            <=> \E j \in 1..(Len(batches) + 1) - 1 : x \in batches[j]
      BY DEF Before
    <3> QED
      BY <1>1, <2>1, <2>2, <3>1, <3>2
  <2> QED
    BY <2>4
<1> QED
  BY <1>1, <1>2, <1>3

-----------------------------------------------------------------------------
LEMMA TopoInvInit == TopoInit => TopoInv
<1> SUFFICES ASSUME TopoInit PROVE TopoInv
  OBVIOUS
<1>1. TopoTypeOK /\ batches = <<>> /\ Len(batches) = 0 /\ DOMAIN batches = {}
  BY DEF TopoInit, TopoTypeOK
<1>2. Before(Len(batches) + 1) = {}
  BY <1>1 DEF Before
<1>3. StuckRemain
  BY DEF TopoInit, StuckRemain, Stuck
<1> QED
  BY <1>1, <1>2, <1>3
  DEF TopoInv, TopoInit, EveryNodeOnce, EarliestBatch, CycleIsDumpedLast,
      NotReadyBefore

LEMMA TakeBatchKeepsTopoInv == TopoInv /\ TakeBatch => TopoInv'
<1> SUFFICES ASSUME TopoInv, TakeBatch PROVE TopoInv'
  OBVIOUS
<1> DEFINE B == NextBatch(deps, remaining)
           R == ReadyIds(deps, remaining)
           n == Len(batches)
<1>0. /\ remaining # {} /\ batches' = Append(batches, B)
      /\ remaining' = remaining \ B /\ deps' = deps
  BY DEF TakeBatch
<1>1. B # {} /\ B \subseteq remaining /\ B \subseteq Nodes
  BY <1>0, NextBatchTakesSome DEF TopoInv, TopoTypeOK
<1>2. TopoTypeOK'
  BY <1>0, <1>1 DEF TopoInv, TopoTypeOK
<1>3. /\ n \in Nat /\ Len(batches') = n + 1
      /\ DOMAIN batches = 1..n /\ DOMAIN batches' = 1..n + 1
      /\ \A k \in 1..n : batches'[k] = batches[k]
      /\ batches'[n + 1] = B
      /\ \A k \in 1..n + 1 : Before(k)' = Before(k)
      /\ Before(n + 1)' = Before(n + 1) \cup B
  BY <1>0, <1>1, AppendedBatch DEF TopoInv
<1>4. Stuck(deps)' = Stuck(deps)
  BY <1>0 DEF Stuck
<1>5. remaining = Nodes \ Before(n + 1)
  BY DEF TopoInv, EveryNodeOnce
<1>6. EveryNodeOnce'
  <2>1. remaining' = Nodes \ Before(n + 1)'
    BY <1>0, <1>3, <1>5
  <2>2. ASSUME NEW k \in 1..n + 1
        PROVE  batches'[k] # {} /\ batches'[k] \cap Before(k)' = {}
    <3>1. CASE k = n + 1
      BY <1>1, <1>3, <1>5, <3>1
    <3>2. CASE k \in 1..n
      BY <1>3, <3>2 DEF TopoInv, EveryNodeOnce
    <3> QED
      BY <1>3, <3>1, <3>2
  <2> QED
    BY <1>3, <2>1, <2>2 DEF EveryNodeOnce
<1>7. CASE R = {}
  <2>1. B = remaining /\ remaining' = {}
    BY <1>0, <1>7 DEF NextBatch
  <2>2. B = Stuck(deps)
    BY <1>0, <1>7, <2>1, NothingReadyIsStuck DEF TopoInv, TopoTypeOK, StuckRemain
  <2>3. \A k \in 1..n : batches[k] \cap Stuck(deps) = {}
    BY <1>0, <1>3, <2>1, <2>2 DEF TopoInv, CycleIsDumpedLast
  <2> QED
    <3>1. EarliestBatch'
      BY <1>0, <1>3, <1>4, <2>2 DEF TopoInv, EarliestBatch
    <3>2. CycleIsDumpedLast'
      BY <1>3, <1>4, <2>1, <2>2, <2>3 DEF CycleIsDumpedLast
    <3>3. StuckRemain' /\ NotReadyBefore'
      BY <2>1 DEF StuckRemain, NotReadyBefore
    <3> QED
      BY <1>2, <1>6, <3>1, <3>2, <3>3 DEF TopoInv
<1>8. CASE R # {}
  <2>1. B = R
    BY <1>8 DEF NextBatch
  <2>2. B \cap Stuck(deps) = {}
    BY <1>0, <2>1, StuckIsNotReady DEF TopoInv, StuckRemain
  <2>3. \A id \in B : deps[id] \subseteq Before(n + 1)
    BY <1>5, <2>1 DEF ReadyIds, TopoInv, TopoTypeOK
  <2>4. ASSUME n > 0, NEW id \in B PROVE deps[id] \cap batches[n] # {}
    <3>1. ~(deps[id] \subseteq Before(n))
      BY <1>1, <1>3, <2>4 DEF TopoInv, NotReadyBefore, TopoTypeOK
    <3>2. 1..(n + 1) - 1 = (1..n - 1) \cup {n}
      BY <1>3, <2>4
    <3>3. Before(n + 1) = Before(n) \cup batches[n]
      BY <3>2 DEF Before
    <3> QED
      BY <2>3, <3>1, <3>3
  <2>5. EarliestBatch'
    <3> SUFFICES ASSUME NEW k \in 1..n + 1, NEW id \in batches'[k] \ Stuck(deps)
                 PROVE  /\ deps[id] \subseteq Before(k)'
                        /\ k > 1 => deps[id] \cap batches'[k - 1] # {}
      BY <1>0, <1>3, <1>4 DEF EarliestBatch
    <3>1. CASE k = n + 1
      BY <1>3, <2>3, <2>4, <3>1
    <3>2. CASE k \in 1..n
      BY <1>3, <3>2 DEF TopoInv, EarliestBatch
    <3> QED
      BY <1>3, <3>1, <3>2
  <2>6. CycleIsDumpedLast'
    BY <1>0, <1>3, <1>4, <2>2 DEF TopoInv, CycleIsDumpedLast
  <2>7. StuckRemain'
    BY <1>0, <1>4, <2>2 DEF TopoInv, StuckRemain
  <2>8. NotReadyBefore'
    <3> SUFFICES ASSUME NEW id \in remaining' PROVE ~(deps[id] \subseteq Before(n + 1))
      BY <1>0, <1>3 DEF NotReadyBefore
    <3>1. id \in remaining /\ id \notin R
      BY <1>0, <2>1
    <3> QED
      BY <1>5, <3>1 DEF ReadyIds, TopoInv, TopoTypeOK
  <2> QED
    BY <1>2, <1>6, <2>5, <2>6, <2>7, <2>8 DEF TopoInv
<1> QED
  BY <1>7, <1>8

LEMMA TopoInvHolds == TopoSpec => []TopoInv
<1>1. TopoInv /\ [TopoNext]_tvars => TopoInv'
  <2> SUFFICES ASSUME TopoInv, [TopoNext]_tvars PROVE TopoInv'
    OBVIOUS
  <2>1. CASE TakeBatch
    BY <2>1, TakeBatchKeepsTopoInv
  <2>2. CASE UNCHANGED tvars
    <3>1. deps' = deps /\ remaining' = remaining /\ batches' = batches
      BY <2>2 DEF tvars
    <3>2. Stuck(deps)' = Stuck(deps)
      BY <3>1 DEF Stuck
    <3>3. \A k : Before(k)' = Before(k)
      BY <3>1 DEF Before
    <3>4. /\ Before(Len(batches))' = Before(Len(batches))
          /\ Before(Len(batches) + 1)' = Before(Len(batches) + 1)
      BY <3>1 DEF Before
    <3> QED
      BY <3>1, <3>2, <3>3, <3>4
      DEF TopoInv, TopoTypeOK, EveryNodeOnce, EarliestBatch,
          CycleIsDumpedLast, StuckRemain, NotReadyBefore
  <2> QED
    BY <2>1, <2>2 DEF TopoNext, Done
<1> QED
  BY TopoInvInit, <1>1, PTL DEF TopoSpec

-----------------------------------------------------------------------------
(* Every node of the graph is in exactly one batch once the loop is done,  *)
(* and no batch is empty, cycles or not (_topo_batches).                   *)
THEOREM NodesOnce == TopoSpec => []EveryNodeOnce
<1>1. TopoInv => EveryNodeOnce
  BY DEF TopoInv
<1> QED
  BY TopoInvHolds, <1>1, PTL

(* Each node that no cycle holds up is batched after its dependencies and  *)
(* in the batch next to one of them (_topo_batches).                       *)
THEOREM AsEarlyAsPossible == TopoSpec => []EarliestBatch
<1>1. TopoInv => EarliestBatch
  BY DEF TopoInv
<1> QED
  BY TopoInvHolds, <1>1, PTL

(* The last batch of a cyclic graph is exactly what its cycles hold up     *)
(* (_topo_batches: "dumping any remaining nodes as a last batch").         *)
THEOREM CyclesComeLast == TopoSpec => []CycleIsDumpedLast
<1>1. TopoInv => CycleIsDumpedLast
  BY DEF TopoInv
<1> QED
  BY TopoInvHolds, <1>1, PTL
=============================================================================
