---------------------------- MODULE TopologyDiscovery ----------------------------
(***************************************************************************)
(* From sysfs to the pool tree: the discovery of the system package and    *)
(* the topology builder of the topology-aware policy.                      *)
(*                                                                         *)
(* Discovery passes over CPUs, NUMA nodes, packages and clusters in turn,  *)
(* each pass reading what the former ones left; Go's maps are walked in    *)
(* any order, so where two entries write the same field either may be the  *)
(* last.  A pool is named by the IDs on the way from the root to it: <<>>  *)
(* is the virtual root, <<s>> a socket, <<s, n>> a NUMA node, <<s, n, k>>  *)
(* a cluster.  Memory and GPUs are left out.                               *)
(***************************************************************************)
EXTENDS Integers, Sequences, FiniteSets, SequencesExt

CONSTANTS
  Cpu,            \* the CPUs with a directory in sysfs
  NoLink,         \* node[c] of a CPU directory without exactly one node link
  NoCluster,      \* clusterList[c] where there is no cluster_cpus_list
  Machine         \* the machines: what sysfs says, and the policy's option

\* numas: the node directories; node, package and die of each CPU, the package -1
\* when it cannot be read; the online CPUs; each CPU's cluster_cpus_list; whether
\* the model is one with clusters; whether the distances are symmetric; and the
\* option enableClusterAffinity.
ASSUME Machines ==
  /\ Cpu \subseteq Nat /\ IsFiniteSet(Cpu)
  /\ \A m \in Machine :
       /\ m.numas \subseteq Nat /\ IsFiniteSet(m.numas)
       /\ m.node \in [Cpu -> Nat \cup {NoLink}]
       /\ m.numas = {} => \A c \in Cpu : m.node[c] = NoLink
       /\ m.package \in [Cpu -> Int] /\ m.die \in [Cpu -> Int]
       /\ m.online \subseteq Cpu
       /\ \A c \in Cpu : m.clusterList[c] = NoCluster \/ c \in m.clusterList[c]
       /\ {m.clusterModel, m.symmetric, m.clusterAffinity} \subseteq BOOLEAN

\* Where the model is one with clusters and they are used, cluster_cpus_list names
\* CPUs that have that list themselves and are on one node.  The kernel sees to it;
\* discoverClusters takes it for granted.
ASSUME ClustersInNodes ==
  \A m \in Machine : m.clusterModel /\ m.clusterAffinity =>
    \A c \in Cpu : m.clusterList[c] # NoCluster =>
      /\ m.clusterList[c] \subseteq Cpu
      /\ \A d \in m.clusterList[c] :
           m.clusterList[d] = m.clusterList[c] /\ m.node[d] = m.node[c]

VARIABLES
  machine,
  pass,           \* the next pass, or how it ended: refused, panicked, built
  cpus,           \* cpus[c]: package, die and node of CPU c
  packages,       \* packages[k]: CPUs, nodes, and the nodes of each die
  nodePackage,    \* nodePackage[n]: the package of NUMA node n
  clusters,       \* clusters[i]: CPUs and NUMA node of cluster i
  pools           \* the pools: their name and their CPUs

vars == <<machine, pass, cpus, packages, nodePackage, clusters, pools>>

Init ==
  /\ machine \in Machine
  /\ pass = "cpus"
  /\ cpus = <<>> /\ packages = <<>> /\ nodePackage = <<>> /\ clusters = <<>>
  /\ pools = {}

Refuse == pass' = "refused"

--------------------------------------------------------------------------------
(***************************************************************************)
(* Discover.                                                               *)
(***************************************************************************)
\* The topology of an offline CPU is not read: its package and die stay 0.
DiscoverCPUs ==
  /\ pass = "cpus"
  /\ IF \E c \in Cpu : machine.node[c] = NoLink
     THEN Refuse /\ UNCHANGED cpus
     ELSE /\ pass' = "nodes"
          /\ cpus' = [c \in Cpu |->
               IF c \in machine.online
               THEN [package |-> machine.package[c], die |-> machine.die[c], node |-> machine.node[c]]
               ELSE [package |-> 0, die |-> 0, node |-> machine.node[c]]]
  /\ UNCHANGED <<machine, packages, nodePackage, clusters, pools>>

\* cpulist has the online CPUs of a node.
NodeCpus(n) == {c \in machine.online : machine.node[c] = n}

\* The package of a new node is 0 as well, until a package claims it.
DiscoverNodes ==
  /\ pass = "nodes"
  /\ nodePackage' = [n \in machine.numas |-> 0]
  /\ pass' = "packages"
  /\ UNCHANGED <<machine, cpus, packages, clusters, pools>>

DiscoverPackages ==
  /\ pass = "packages"
  /\ LET members(k) == {c \in Cpu : cpus[c].package = k}
         inDie(k, d) == {c \in members(k) : cpus[c].die = d}
     IN packages' = [k \in {cpus[c].package : c \in Cpu} |->
          [cpus     |-> members(k),
           nodes    |-> {cpus[c].node : c \in members(k)},
           dieNodes |-> [d \in {cpus[c].die : c \in members(k)} |->
                           {cpus[c].node : c \in inDie(k, d)}]]]
  /\ pass' = "populate"
  /\ UNCHANGED <<machine, cpus, nodePackage, clusters, pools>>

\* A slip for the mutants: the nodes keep the package they were made with.
LeaveNodePackage ==
  /\ pass = "populate"
  /\ pass' = "clusters"
  /\ UNCHANGED <<machine, cpus, packages, nodePackage, clusters, pools>>

\* The package visited last claims a node that several have.
PopulateNodePackageInfo ==
  /\ pass = "populate"
  /\ LET claims(n) == {k \in DOMAIN packages : n \in packages[k].nodes}
     IN IF /\ machine.numas # {}
           /\ \E k \in DOMAIN packages : ~(packages[k].nodes \subseteq machine.numas)
        THEN Refuse /\ UNCHANGED nodePackage
        ELSE /\ \E claim \in [machine.numas -> DOMAIN packages \cup {0}] :
                  /\ \A n \in machine.numas :
                       claim[n] \in (IF claims(n) = {} THEN {nodePackage[n]} ELSE claims(n))
                  /\ nodePackage' = claim
             /\ pass' = "clusters"
  /\ UNCHANGED <<machine, cpus, packages, clusters, pools>>

\* Clusters are numbered as the names of the CPUs' directories are sorted, in which
\* cpu10 comes before cpu2: any numbering is allowed here.  Each cluster is given to
\* the node of its first CPU.  One CPU without cluster_cpus_list (an offline one has
\* none), and there are no clusters.
DiscoverClusters ==
  /\ pass = "clusters"
  /\ LET available == /\ machine.clusterModel
                      /\ machine.online = Cpu
                      /\ \A c \in Cpu : machine.clusterList[c] # NoCluster
         lists == {machine.clusterList[c] : c \in Cpu}
     IN IF available
        THEN \E list \in Bijection(0..(Cardinality(lists) - 1), lists) :
               clusters' = [i \in DOMAIN list |->
                              [cpus |-> list[i], node |-> machine.node[Min(list[i])]]]
        ELSE clusters' = <<>>
  /\ pass' = "check"
  /\ UNCHANGED <<machine, cpus, packages, nodePackage, pools>>

--------------------------------------------------------------------------------
(***************************************************************************)
(* buildResourcePoolsByTopology.                                           *)
(***************************************************************************)
ValidateSocketNodes ==
  \A k, l \in DOMAIN packages :
    k # l => packages[k].nodes \cap packages[l].nodes = {}

ValidateDieNodes ==
  \A k \in DOMAIN packages :
    \A d, e \in DOMAIN packages[k].dieNodes :
      d # e => packages[k].dieNodes[d] \cap packages[k].dieNodes[e] = {}

ValidateSocketStructure ==
  /\ packages # <<>>
  /\ \A k \in DOMAIN packages : k >= 0 /\ packages[k].nodes # {}

CheckHWTopology ==
  /\ pass = "check"
  /\ IF /\ ValidateSocketNodes
        /\ ValidateDieNodes
        /\ machine.symmetric
        /\ ValidateSocketStructure
     THEN pass' = "build"
     ELSE Refuse
  /\ UNCHANGED <<machine, cpus, packages, nodePackage, clusters, pools>>

PoolNamed(name, set) == [name |-> name, cpus |-> set]

\* A slip for the mutants: two sockets are not enough for a virtual root.
RootPoolsAboveTwo == IF Cardinality(DOMAIN packages) > 2 THEN {PoolNamed(<<>>, Cpu)} ELSE {}

\* AllowedSet: every CPU found, also those that are offline.
RootPools == IF Cardinality(DOMAIN packages) > 1 THEN {PoolNamed(<<>>, Cpu)} ELSE {}

SocketPools == {PoolNamed(<<k>>, packages[k].cpus) : k \in DOMAIN packages}

NumaPools == {PoolNamed(<<nodePackage[n], n>>, NodeCpus(n)) : n \in machine.numas}

ClusterPools ==
  IF machine.clusterAffinity
  THEN {PoolNamed(<<nodePackage[clusters[i].node], clusters[i].node, i>>, clusters[i].cpus) :
          i \in {j \in DOMAIN clusters : clusters[j].node \in machine.numas}}
  ELSE {}

\* A node whose package is not there has a nil parent, which NewNumaNode uses.
BuildPools ==
  /\ pass = "build"
  /\ IF \A n \in machine.numas : nodePackage[n] \in DOMAIN packages
     THEN /\ pools' = RootPools \cup SocketPools \cup NumaPools \cup ClusterPools
          /\ pass' = "built"
     ELSE pass' = "panicked" /\ UNCHANGED pools
  /\ UNCHANGED <<machine, cpus, packages, nodePackage, clusters>>

\* The sockets hang below the virtual root, if there is one, and so on down.
Ancestors(p) == {q \in pools : IsPrefix(q.name, p.name)}

\* collectNodes numbers a node before its children, and those in order of their
\* IDs, in which they were added.
CollectedBefore(q, p) ==
  \/ IsPrefix(q.name, p.name) /\ q # p
  \/ \E i \in DOMAIN q.name \cap DOMAIN p.name :
       q.name[i] < p.name[i] /\ SubSeq(q.name, 1, i - 1) = SubSeq(p.name, 1, i - 1)

NodeID(p) == Cardinality({q \in pools : CollectedBefore(q, p)})

--------------------------------------------------------------------------------
Next ==
  \/ DiscoverCPUs \/ DiscoverNodes \/ DiscoverPackages
  \/ PopulateNodePackageInfo \/ DiscoverClusters
  \/ CheckHWTopology \/ BuildPools

Spec == Init /\ [][Next]_vars

--------------------------------------------------------------------------------
(***************************************************************************)
(* Properties.                                                             *)
(***************************************************************************)
\* What the policy and its books take for granted of the tree (PathsLeadToRoot
\* and PoolResources of TopologyPools), of every tree that is built: NodeIDs tell
\* the pools apart and the root has the first, all paths lead to the root, a
\* pool's CPUs are its parent's too, and pools that overlap lie on one path.
PoolsFormTree ==
  pass = "built" =>
    /\ {NodeID(p) : p \in pools} = 0..(Cardinality(pools) - 1)
    /\ \A p, q \in pools : NodeID(q) = 0 => q \in Ancestors(p)
    /\ \A p \in pools : \A q \in Ancestors(p) : p.cpus \subseteq q.cpus /\ NodeID(q) <= NodeID(p)
    /\ \A p, q \in pools : p.cpus \cap q.cpus # {} => p \in Ancestors(q) \/ q \in Ancestors(p)

\* Whatever order the maps are walked in, an online CPU of a machine that is
\* accepted is in one NUMA pool, that of its node, under the socket of its
\* package; and with clusters in use, in the one pool of its cluster there.
CpusFindTheirPools ==
  pass = "built" =>
    \A c \in machine.online :
      LET own == <<machine.package[c], machine.node[c]>>
          holding(depth) == {p \in pools : Len(p.name) = depth /\ c \in p.cpus}
      IN /\ {p.name : p \in holding(2)} = {own}
         /\ machine.clusterAffinity /\ clusters # <<>> =>
              /\ {p.cpus : p \in holding(3)} = {machine.clusterList[c]}
              /\ \A p \in holding(3) : IsPrefix(own, p.name)
===================================================================================
