--------------------------- MODULE TopologyAwarePolicy ---------------------------
(***************************************************************************)
(* The topology-aware policy: the supplies of the pools and the grants     *)
(* made from them.                                                         *)
(*                                                                         *)
(* The module gives the effect of each entry point of the policy as an     *)
(* operator on (supply, grants), to be used by the modules that model its  *)
(* callers, and a small specification in which the callers are well        *)
(* behaved: a grant id is allocated when free and released when held.      *)
(***************************************************************************)
EXTENDS PoolSelection, Requirements

CONSTANTS
  Gid,            \* grant ids: pod UID and container name
  NoGrant,        \* the value of a grant id that holds nothing
  PolicyContainer \* the containers the callers of PolicySpec place

ASSUME NoGrantIsNoGrant == NoGrant \notin Grant

\* What a pod says of a container, and whether the kubelet that creates it enforces
\* CPU limits.
IsContainer(c) ==
  /\ c.request \in Nat /\ c.limit \in Nat /\ c.memory \in Nat
  /\ c.class = "guaranteed" => c.limit = c.request
  /\ \A n \in NumasOf[Root] : c.gpus[n] \in Nat
  /\ c.cfsQuota \in BOOLEAN

ASSUME PolicyContainers == \A c \in PolicyContainer : IsContainer(c)

\* What kubelet tells the runtime of a container, and what the policy reads from it.
ResourcesOf(c) == LinuxResources(c.class, c.request, c.limit, c.memory, c.cfsQuota)
Asked(c) == EstimatedRequest(ResourcesOf(c), c.gpus)
PolicyRequest == {Asked(c) : c \in PolicyContainer}

VARIABLES
  supply,         \* supply[p]: the counters of pool p
  grants          \* grants[g]: the grant stored under id g

policyVars == <<supply, grants>>

Held(g) == grants[g] # NoGrant

Colocated == [p \in Pool |-> Cardinality({g \in Gid : Held(g) /\ grants[g].pool = p})]

PolicyTypeOK ==
  /\ supply \in [Pool -> Supply]
  /\ grants \in [Gid -> Grant \cup {NoGrant}]

PolicyInit ==
  /\ supply = [p \in Pool |-> EmptySupply]
  /\ grants = [g \in Gid |-> NoGrant]

(***************************************************************************)
(* supply.Allocate: the memory of the pool, then its CPU by request, may   *)
(* refuse.  For the root this is the only check there is.                  *)
(***************************************************************************)
GrantOf(req, p) == [pool |-> p, cpu |-> req.cpu, limit |-> req.limit, mem |-> req.mem]

SupplyAccepts(req, p) ==
  /\ (EnforceMemory /\ req.mem > 0) => req.mem <= AllocatableMemory(supply, p)
  /\ req.cpu + supply[p].byRequest <= TotalSharedCPU(p)

\* A slip for the mutants: kube-system containers placed like any other.
IsPoolForAny(req, system, p) == IsBestPool(supply, Colocated, req, p)

\* The pool allocatePool goes to: the root for a kube-system container.
IsPoolFor(req, system, p) ==
  IF system THEN p = Root ELSE IsBestPool(supply, Colocated, req, p)

\* Storing the grant replaces whatever the id held; nothing is given back.
AllocatePool(g, req, p) ==
  LET grant == GrantOf(req, p)
  IN /\ supply' = Charge(supply, grant)
     /\ grants' = [grants EXCEPT ![g] = grant]

ReleasePool(g) ==
  IF Held(g)
  THEN /\ supply' = Discharge(supply, grants[g])
       /\ grants' = [grants EXCEPT ![g] = NoGrant]
  ELSE UNCHANGED policyVars

(***************************************************************************)
(* Rebuilding one container after a restart.  The pool is the deepest one  *)
(* whose CPUs contain the container's cpuset (the first in pool order of   *)
(* that depth).  The amounts are recomputed from the runtime's parameters. *)
(***************************************************************************)
PoolsCovering(cpus) == {p \in Pool : cpus \subseteq CpusOf[p]}

\* A slip for the mutants: any pool that covers the cpuset will do, so the
\* first one, the root.
IsFirstNodeByCPUSet(cpus, p) ==
  p \in PoolsCovering(cpus) /\ \A q \in PoolsCovering(cpus) : p <= q

IsNodeByCPUSet(cpus, p) ==
  /\ p \in DeepestOf(PoolsCovering(cpus))
  /\ \A q \in DeepestOf(PoolsCovering(cpus)) : p <= q

GrantFromContainer(res, p) == GrantOf(RebuiltAmounts(res), p)

RebuildContainerAllocation(g, res, p) ==
  IF Held(g)
  THEN UNCHANGED policyVars
  ELSE LET grant == GrantFromContainer(res, p)
       IN /\ supply' = Charge(supply, grant)
          /\ grants' = [grants EXCEPT ![g] = grant]

--------------------------------------------------------------------------------
(***************************************************************************)
(* The policy under well-behaved callers.                                  *)
(***************************************************************************)
Allocate(g, req) ==
  /\ ~Held(g)
  /\ \E p \in Pool :
       /\ IsPoolFor(req, FALSE, p)
       /\ SupplyAccepts(req, p)
       /\ AllocatePool(g, req, p)

Release(g) ==
  /\ Held(g)
  /\ ReleasePool(g)

PolicyNext ==
  \E g \in Gid :
    \/ \E req \in PolicyRequest : Allocate(g, req)
    \/ Release(g)

PolicySpec == PolicyInit /\ [][PolicyNext]_policyVars

--------------------------------------------------------------------------------
(***************************************************************************)
(* Properties.                                                             *)
(***************************************************************************)
GrantsUnder(p) == {g \in Gid : Held(g) /\ p \in Path[grants[g].pool]}

\* What the grants under the ids of S add up to.
Granted(table, S) ==
  [cpu   |-> SumFunction([g \in S |-> table[g].cpu]),
   limit |-> SumFunction([g \in S |-> table[g].limit]),
   mem   |-> SumFunction([g \in S |-> table[g].mem])]

\* The counters of every pool are exactly what the stored grants at or below
\* it add up to: allocate and release charge and discharge the same path
\* (propagateResourceToParent, supply.Allocate, supply.Release), so no
\* capacity leaks and no clamp ever hides a difference.
Ledger ==
  \A p \in Pool :
    LET granted == Granted(grants, GrantsUnder(p))
    IN /\ supply[p].shared = granted.cpu
       /\ supply[p].byRequest = granted.cpu
       /\ supply[p].byLimit = granted.limit
       /\ supply[p].mem = granted.mem

\* Below the root the requests granted never exceed the CPUs: the filter
\* looks at the candidate and at every ancestor that will be charged.
WithinCapacity ==
  \A p \in Pool \ {Root} : supply[p].byRequest <= TotalSharedCPU(p)

\* With memory topology enabled the memory granted below the root never
\* exceeds the memory of the pool (checkMemoryCapacity, supply.Allocate).
WithinMemory ==
  EnforceMemory => \A p \in Pool \ {Root} : supply[p].mem <= MemTotal[p]

\* A machine on which every pool has CPUs, and two pools with the same CPUs (a socket
\* and its only NUMA node) have the same memory and the same NUMA nodes.
PoolsHaveCpus ==
  /\ \A p \in Pool : CpusOf[p] # {}
  /\ \A p, q \in Pool :
       CpusOf[p] = CpusOf[q] => MemTotal[p] = MemTotal[q] /\ NumasOf[p] = NumasOf[q]

\* How far the grant a rebuild makes for c may be from the one its creation made:
\* shares of 2, which kubelet writes for "no CPU request", count as 2 milli-CPUs and
\* not as none; and the limit of a Guaranteed container, which was its request as the
\* create path rounds it, is what the quota says: up to 1 more, up to 10 more where
\* the least quota applies, nothing where kubelet enforces no limits.
Recovers(c, created, rebuilt) ==
  /\ rebuilt.pool = created.pool /\ rebuilt.mem = created.mem
  /\ rebuilt.cpu = IF created.cpu = 0 THEN 2 ELSE created.cpu
  /\ IF c.class # "guaranteed" THEN rebuilt.limit = created.limit
     ELSE IF ~c.cfsQuota THEN rebuilt.limit = 0
     ELSE rebuilt.limit - created.limit \in 0..(IF c.request < 10 THEN 10 ELSE 1)

\* For a container the policy would place in the present state: what it is granted
\* is its request or one milli-CPU less (for at most 2, nothing); and when the policy
\* is rebuilt, the pool found by the container's cpuset and the amounts read
\* from the runtime are those of that grant, up to what Recovers allows
\* (EstimateRequirements, createGrantFromContainer, findNodeByCPUSet).
RebuildRecovers ==
  \A c \in PolicyContainer :
    LET req == Asked(c)
    IN \A p \in Pool : IsPoolFor(req, FALSE, p) /\ SupplyAccepts(req, p) =>
         /\ req.cpu \in {c.request, c.request - (IF c.request <= 2 THEN c.request ELSE 1)}
         /\ IsNodeByCPUSet(CpusOf[p], p)
         /\ Recovers(c, GrantOf(req, p), GrantFromContainer(ResourcesOf(c), p))
===================================================================================
