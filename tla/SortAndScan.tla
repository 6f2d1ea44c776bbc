-------------------------------- MODULE SortAndScan --------------------------------
(***************************************************************************)
(* The pool selection of the topology-aware policy as the code computes it:  *)
(* sort.Slice on the filtered pools, then a scan that keeps the first pool   *)
(* of the greatest depth (or, gpu-first, stops at the first pool touching a  *)
(* GPU's NUMA node).                                                         *)
(***************************************************************************)
EXTENDS TopologyAwarePolicy, Sequences

\* In the sorted order as many pools stand before a pool as come before it.
SortedPools(req, weight) ==
  LET S == FilteredPools(supply, req)
      rank == [p \in S |-> Rank(supply, Colocated, req, weight, p)]
      ahead == [p \in S |-> Cardinality({q \in S : Outranks(rank[q], rank[p])})]
  IN  [i \in 1..Cardinality(S) |-> CHOOSE p \in S : ahead[p] = i - 1]

Scan(pools, req) ==
  LET best[i \in 0..Len(pools)] ==
        IF i = 0 THEN <<>>
        ELSE LET p == pools[i]
                 kept == best[i-1]
             IN  IF HasCapacity(supply, req, p) /\ (kept = <<>> \/ Depth(p) > Depth(kept[1]))
                 THEN <<p>> ELSE kept
  IN best[Len(pools)]

ScanGpu(pools, req) ==
  LET touching == {i \in 1..Len(pools) : NumasOf[pools[i]] \cap GpuNumas(req) # {}}
  IN IF touching = {} THEN <<>> ELSE <<pools[Min(touching)]>>

Selected(req) ==
  LET sorted == SortedPools(req, req.gpus)
      sortedForGpu == SortedPools(req, GpuWeight(req))
      gpu == ScanGpu(sortedForGpu, req)
  IN IF GpuFirst /\ gpu # <<>> THEN gpu ELSE Scan(sorted, req)

\* findBestAvailablePool: in every reachable state the declarative choice is
\* the pool that sorting and scanning picks, and there is exactly one.
SelectionIsSortAndScan ==
  \A req \in PolicyRequest :
    {<<p>> : p \in {q \in Pool : IsBestPool(supply, Colocated, req, q)}} = {Selected(req)}
===================================================================================
