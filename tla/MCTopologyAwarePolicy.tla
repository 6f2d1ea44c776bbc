-------------------------- MODULE MCTopologyAwarePolicy --------------------------
(***************************************************************************)
(* The policy alone, on a machine of MCTopology; its pool selection        *)
(* compared with the literal sort-then-scan of the code, and what it       *)
(* grants compared with what a rebuild recovers from the runtime.          *)
(***************************************************************************)
EXTENDS SortAndScan, MCTopology

ASSUME SocketsHaveCpus == PoolsHaveCpus

\* Amounts that fit in some pools and not in others, and amounts at the edges of the
\* conversions: shares of 2, which is what 0, 1 and 2 milli-CPUs become, the least
\* quota, odd amounts; two of a kubelet that enforces no CPU limits.
MCContainers ==
  { Container("guaranteed", 979, 979, 1536, NoGpu),      \* a little less than a CPU
    Container("burstable", 1000, 2000, 2048, GpusOn(1)), \* with a GPU on NUMA node 1
    Unlimited("guaranteed", 2000, 2000, 0, NoGpu),       \* the largest NUMA node
    Container("burstable", 0, 0, 0, NoGpu),              \* no CPU request, no limit
    Container("guaranteed", 2, 2, 1024, NoGpu),          \* read as no CPU request
    Unlimited("burstable", 333, 1501, 3072, GpusOn(0)) } \* more memory than a NUMA node
===================================================================================
