------------------------------ MODULE TopologyPools ------------------------------
(***************************************************************************)
(* The pool tree of the topology-aware policy and the arithmetic of one    *)
(* pool's supply.                                                          *)
(*                                                                         *)
(* A pool is named by its NodeID, the number it receives when the policy   *)
(* collects the tree in depth-first order.  Path[p] is p together with all *)
(* its ancestors: it stands for the loops of the code that follow Parent() *)
(* up to the root.  CPU amounts are milli-CPUs, memory amounts are KB.     *)
(***************************************************************************)
EXTENDS Integers, FiniteSets

CONSTANTS
  Pool,           \* the NodeIDs of the pools
  Root,           \* the pool at the top: the virtual node, or the only socket
  Path,           \* Path[p]: p and its ancestors
  CpusOf,         \* CpusOf[p]: the sharable CPUs of p
  MemTotal,       \* MemTotal[p]: the memory of p
  NumasOf,        \* NumasOf[p]: the NUMA nodes at or below p
  EnforceMemory   \* the option enableMemoryTopology

ASSUME PoolsAreNodeIDs == Pool \subseteq Nat /\ Root \in Pool

ASSUME PathsLeadToRoot ==
  /\ Path \in [Pool -> SUBSET Pool]
  /\ Path[Root] = {Root}
  /\ \A p \in Pool : p \in Path[p] /\ Root \in Path[p]
  /\ \A p \in Pool : \A q \in Path[p] : Path[q] \subseteq Path[p]
  /\ \A p \in Pool : \A q, r \in Path[p] : q \in Path[r] \/ r \in Path[q]
  /\ \A p, q \in Pool : p \in Path[q] /\ q \in Path[p] => p = q

ASSUME PoolResources ==
  /\ \A p \in Pool : IsFiniteSet(CpusOf[p]) /\ IsFiniteSet(Path[p])
  /\ \A p \in Pool : \A q \in Path[p] : CpusOf[p] \subseteq CpusOf[q]
  /\ \A p, q \in Pool :
       CpusOf[p] \cap CpusOf[q] # {} => p \in Path[q] \/ q \in Path[p]
  /\ MemTotal \in [Pool -> Nat]
  /\ EnforceMemory \in BOOLEAN

ASSUME MachineIsFinite ==
  /\ IsFiniteSet(Pool)
  /\ \A p \in Pool : IsFiniteSet(NumasOf[p]) /\ NumasOf[p] \subseteq NumasOf[Root]

(***************************************************************************)
(* What a container asks for: the CPU request, the CPU limit (0 when it    *)
(* has none), the memory limit, and the NUMA nodes its GPU devices sit on, *)
(* as a function from NUMA node to the number of devices.                  *)
(***************************************************************************)
IsRequest(r) ==
  /\ r.cpu \in Nat
  /\ r.limit \in Nat
  /\ r.mem \in Nat

(***************************************************************************)
(* A grant: the pool it was made from and the amounts charged there and on *)
(* every ancestor.  The code keeps allocatedCPUs and allocatedCPUByRequest *)
(* apart, but both constructors give them the same value.                  *)
(***************************************************************************)
Grant == [pool : Pool, cpu : Nat, limit : Nat, mem : Nat]

Supply == [shared : Int, byRequest : Int, byLimit : Int, mem : Nat]

EmptySupply == [shared |-> 0, byRequest |-> 0, byLimit |-> 0, mem |-> 0]

MilliPerCpu == 1000

TotalSharedCPU(p) == MilliPerCpu * Cardinality(CpusOf[p])

Depth(p) == Cardinality(Path[p]) - 1

AllocatableSharedCPU(supply, p) == TotalSharedCPU(p) - supply[p].shared

AllocatableCPUByRequest(supply, p) == TotalSharedCPU(p) - supply[p].byRequest

AllocatableMemory(supply, p) ==
  IF MemTotal[p] <= supply[p].mem THEN 0 ELSE MemTotal[p] - supply[p].mem

\* A counter on an ancestor never goes below zero; neither does any memory.
Floor(n) == IF n < 0 THEN 0 ELSE n

Add(s, g) ==
  [shared    |-> s.shared + g.cpu,
   byRequest |-> s.byRequest + g.cpu,
   byLimit   |-> s.byLimit + g.limit,
   mem       |-> s.mem + g.mem]

\* The supply of the grant's own pool clamps only shared and mem.
SubtractOwn(s, g) ==
  [shared    |-> Floor(s.shared - g.cpu),
   byRequest |-> s.byRequest - g.cpu,
   byLimit   |-> s.byLimit - g.limit,
   mem       |-> Floor(s.mem - g.mem)]

SubtractAncestor(s, g) ==
  [shared    |-> Floor(s.shared - g.cpu),
   byRequest |-> Floor(s.byRequest - g.cpu),
   byLimit   |-> Floor(s.byLimit - g.limit),
   mem       |-> Floor(s.mem - g.mem)]

Charge(supply, g) ==
  [p \in Pool |-> IF p \in Path[g.pool] THEN Add(supply[p], g) ELSE supply[p]]

\* A slip for the mutants: the ancestors keep what the grant charged them.
DischargeOwnPool(supply, g) ==
  [supply EXCEPT ![g.pool] = SubtractOwn(@, g)]

Discharge(supply, g) ==
  [p \in Pool |->
     IF p = g.pool THEN SubtractOwn(supply[p], g)
     ELSE IF p \in Path[g.pool] THEN SubtractAncestor(supply[p], g)
     ELSE supply[p]]
===================================================================================
