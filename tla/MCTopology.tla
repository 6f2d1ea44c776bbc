------------------------------- MODULE MCTopology -------------------------------
(***************************************************************************)
(* Two machines for model checking, as the topology builder numbers their  *)
(* pools.  The sizes differ between NUMA nodes so that requests fit in     *)
(* some pools and not in others.                                           *)
(***************************************************************************)
EXTENDS Integers

\* Two sockets under a virtual root, two NUMA nodes each.
\*   0 root: 1 socket {2 NUMA, 3 NUMA}, 4 socket {5 NUMA, 6 NUMA}
SocketsPool == 0..6
SocketsPath == [p \in SocketsPool |->
  CASE p = 0 -> {0}
    [] p = 1 -> {0, 1}
    [] p \in {2, 3} -> {0, 1, p}
    [] p = 4 -> {0, 4}
    [] p \in {5, 6} -> {0, 4, p}]
SocketsCpus == [p \in SocketsPool |->
  CASE p = 0 -> 0..4
    [] p = 1 -> 0..2
    [] p = 2 -> {0, 1}
    [] p = 3 -> {2}
    [] p = 4 -> {3, 4}
    [] p = 5 -> {3}
    [] p = 6 -> {4}]
SocketsMem == [p \in SocketsPool |->
  CASE p = 0 -> 8 [] p \in {1, 4} -> 4 [] OTHER -> 2]
SocketsNumas == [p \in SocketsPool |->
  CASE p = 0 -> 0..3
    [] p = 1 -> {0, 1}
    [] p = 2 -> {0}
    [] p = 3 -> {1}
    [] p = 4 -> {2, 3}
    [] p = 5 -> {2}
    [] p = 6 -> {3}]

\* One socket, which is the root, with two NUMA nodes; the first is split
\* into clusters.  A cluster reports the memory of its NUMA node.
\*   0 socket: 1 NUMA {2 cluster, 3 cluster}, 4 NUMA
ClustersPool == 0..4
ClustersPath == [p \in ClustersPool |->
  CASE p = 0 -> {0}
    [] p = 1 -> {0, 1}
    [] p \in {2, 3} -> {0, 1, p}
    [] p = 4 -> {0, 4}]
ClustersCpus == [p \in ClustersPool |->
  CASE p = 0 -> 0..3
    [] p = 1 -> {0, 1}
    [] p = 2 -> {0}
    [] p = 3 -> {1}
    [] p = 4 -> {2, 3}]
ClustersMem == [p \in ClustersPool |-> IF p = 0 THEN 6 ELSE 3]
ClustersNumas == [p \in ClustersPool |->
  CASE p = 0 -> {0, 1} [] p \in 1..3 -> {0} [] p = 4 -> {1}]

\* Containers, memory in bytes.  NoGpu is the GPU demand of one without devices; an
\* unlimited one is created by a kubelet that enforces no CPU limits.
NoGpu == [n \in 0..3 |-> 0]
GpusOn(n) == [NoGpu EXCEPT ![n] = 1]
Container(class, request, limit, memory, gpus) ==
  [class |-> class, request |-> request, limit |-> limit, memory |-> memory,
   gpus |-> gpus, cfsQuota |-> TRUE]
Unlimited(class, request, limit, memory, gpus) ==
  [Container(class, request, limit, memory, gpus) EXCEPT !.cfsQuota = FALSE]
===================================================================================
