------------------------------ MODULE PoolSelection ------------------------------
(***************************************************************************)
(* How the topology-aware policy picks a pool for a request: filter by     *)
(* capacity, order by preference, take the deepest that fits.              *)
(*                                                                         *)
(* The operators take the state they read as parameters: supply, the       *)
(* counters of every pool, and colocated[p], the number of grants on p.    *)
(***************************************************************************)
EXTENDS TopologyPools, FiniteSetsExt

CONSTANT GpuFirst     \* the option resourcePriority is "gpu-first"

ASSUME GpuFirstIsOption == GpuFirst \in BOOLEAN

(***************************************************************************)
(* Capacity is checked on the pool and on each ancestor below the root.    *)
(* The root itself is never checked.                                       *)
(***************************************************************************)
BelowRoot(p) == Path[p] \ {Root}

\* Slips for the mutants: only the pool itself is looked at.
CpuFitsHere(supply, req, p) == AllocatableCPUByRequest(supply, p) - req.cpu >= 0

MemoryFitsHere(supply, req, p) == req.mem = 0 \/ AllocatableMemory(supply, p) >= req.mem

CpuFits(supply, req, p) ==
  \A q \in BelowRoot(p) : AllocatableCPUByRequest(supply, q) - req.cpu >= 0

MemoryFits(supply, req, p) ==
  req.mem = 0 \/ \A q \in BelowRoot(p) : AllocatableMemory(supply, q) >= req.mem

HasCapacity(supply, req, p) ==
  /\ CpuFits(supply, req, p)
  /\ EnforceMemory => MemoryFits(supply, req, p)

\* The root is a candidate only when no other pool is.
FilteredPools(supply, req) ==
  LET fitting == {p \in Pool \ {Root} : HasCapacity(supply, req, p)}
  IN IF fitting = {} THEN {Root} ELSE fitting

(***************************************************************************)
(* The preference between two pools.  Each pool is ranked by a tuple; the  *)
(* first component that differs decides, and the larger value wins.        *)
(* weight[n] is the GPU affinity of NUMA node n.                           *)
(***************************************************************************)
SharedCapacity(supply, req, p) == AllocatableSharedCPU(supply, p) - req.limit

FitsLimit(supply, req, p) == IF SharedCapacity(supply, req, p) >= 0 THEN 1 ELSE 0

GpuAffinity(weight, p) == MapThenSumSet(LAMBDA n : weight[n], NumasOf[p])

Rank(supply, colocated, req, weight, p) ==
  LET cpu == AllocatableSharedCPU(supply, p)
      gpu == GpuAffinity(weight, p)
  IN << FitsLimit(supply, req, p),
        Depth(p),
        SharedCapacity(supply, req, p),
        0 - colocated[p],
        IF GpuFirst THEN gpu ELSE cpu,
        IF GpuFirst THEN cpu ELSE gpu,
        0 - p >>

Outranks(a, b) == \E i \in 1..7 : a[i] > b[i] /\ \A j \in 1..(i-1) : a[j] = b[j]

Before(supply, colocated, req, weight, p, q) ==
  Outranks(Rank(supply, colocated, req, weight, p), Rank(supply, colocated, req, weight, q))

\* p comes first among the pools of S in the sorted order.
IsFirst(supply, colocated, req, weight, p, S) ==
  /\ p \in S
  /\ \A q \in S \ {p} : Before(supply, colocated, req, weight, p, q)

(***************************************************************************)
(* The regular choice: among the sorted candidates with capacity, the      *)
(* first of the greatest depth.                                            *)
(***************************************************************************)
DeepestOf(S) == {p \in S : \A q \in S : Depth(p) >= Depth(q)}

\* A slip for the mutants: the first pool in sorted order, however shallow.
IsSortedChoice(supply, colocated, req, p) ==
  LET fitting == {q \in FilteredPools(supply, req) : HasCapacity(supply, req, q)}
  IN IsFirst(supply, colocated, req, req.gpus, p, fitting)

IsRegularChoice(supply, colocated, req, p) ==
  LET fitting == {q \in FilteredPools(supply, req) : HasCapacity(supply, req, q)}
  IN IsFirst(supply, colocated, req, req.gpus, p, DeepestOf(fitting))

(***************************************************************************)
(* The GPU-first choice: the first candidate that touches a NUMA node      *)
(* with a requested GPU.  There is none when the request names no known    *)
(* device, or when no candidate touches such a NUMA node.                  *)
(***************************************************************************)
GpuNumas(req) == {n \in NumasOf[Root] : req.gpus[n] > 0}

GpuWeight(req) == [n \in NumasOf[Root] |-> IF n \in GpuNumas(req) THEN 1 ELSE 0]

GpuPools(supply, req) ==
  {p \in FilteredPools(supply, req) : NumasOf[p] \cap GpuNumas(req) # {}}

IsGpuChoice(supply, colocated, req, p) ==
  IsFirst(supply, colocated, req, GpuWeight(req), p, GpuPools(supply, req))

IsBestPool(supply, colocated, req, p) ==
  IF GpuFirst /\ GpuPools(supply, req) # {}
  THEN IsGpuChoice(supply, colocated, req, p)
  ELSE IsRegularChoice(supply, colocated, req, p)
===================================================================================
