-------------------------- MODULE MachineReaders_proofs --------------------------
(***************************************************************************)
(* The two parts that read a machine.  The discovery of the topology-aware   *)
(* policy: every pool tree it builds is one the policy and its books can     *)
(* rely on, whatever machine sysfs describes.  The DevKit collectors: what   *)
(* they publish and log agrees with how their rounds ended, whatever the     *)
(* configuration and the commands' output.                                   *)
(***************************************************************************)
EXTENDS DevkitCollectors, TopologyDiscovery, FiniteInduction

--------------------------------------------------------------------------------
(***************************************************************************)
(* The discovery: names of pools, in the order in which collectNodes       *)
(* comes to them.                                                          *)
(***************************************************************************)
\* The IDs on the way from the root to a pool.
Name == {a \in Seq(Int) : Len(a) <= 3}

\* The first n IDs are the same.
Agree(a, b, n) == \A i \in 1..n : a[i] = b[i]

\* A beginning comes before what it is the beginning of; otherwise the first ID
\* that differs decides.
Before(a, b) ==
  \/ Len(a) < Len(b) /\ Agree(a, b, Len(a))
  \/ \E i \in DOMAIN a \cap DOMAIN b : a[i] < b[i] /\ Agree(a, b, i - 1)

LEMMA Beginnings ==
  ASSUME NEW a \in Seq(Int), NEW b \in Seq(Int), NEW n \in Nat, n <= Len(a), n <= Len(b)
  PROVE  SubSeq(a, 1, n) = SubSeq(b, 1, n) <=> Agree(a, b, n)
<1>1. SubSeq(a, 1, n) \in Seq(Int) /\ Len(SubSeq(a, 1, n)) = n
      /\ SubSeq(b, 1, n) \in Seq(Int) /\ Len(SubSeq(b, 1, n)) = n
  OBVIOUS
<1>2. \A i \in 1..n : SubSeq(a, 1, n)[i] = a[i] /\ SubSeq(b, 1, n)[i] = b[i]
  OBVIOUS
<1> QED
  BY <1>1, <1>2 DEF Agree

LEMMA PrefixesAgree ==
  ASSUME NEW a \in Seq(Int), NEW b \in Seq(Int)
  PROVE  IsPrefix(a, b) <=> Len(a) <= Len(b) /\ Agree(a, b, Len(a))
<1>1. Len(a) \in Nat /\ Len(b) \in Nat
  OBVIOUS
<1>2. Len(a) <= Len(b) => (SubSeq(a, 1, Len(a)) = SubSeq(b, 1, Len(a)) <=> Agree(a, b, Len(a)))
  BY <1>1, Beginnings
<1> QED
  BY <1>2 DEF IsPrefix

LEMMA NamesDiffer ==
  ASSUME NEW a \in Name, NEW b \in Name
  PROVE  a = b <=> Len(a) = Len(b) /\ Agree(a, b, Len(a))
<1>1. a \in Seq(Int) /\ b \in Seq(Int)
  BY DEF Name
<1>2. Len(a) = Len(b) /\ (\A i \in 1..Len(a) : a[i] = b[i]) => a = b
  BY ONLY <1>1
<1> QED
  BY <1>2 DEF Agree

LEMMA BeforeIsStrict ==
  ASSUME NEW a \in Name
  PROVE  ~Before(a, a)
  BY DEF Before, Name

LEMMA BeforeIsTransitive ==
  ASSUME NEW a \in Name, NEW b \in Name, NEW c \in Name, Before(a, b), Before(b, c)
  PROVE  Before(a, c)
<1>0. Len(a) \in Nat /\ Len(b) \in Nat /\ Len(c) \in Nat
      /\ DOMAIN a = 1..Len(a) /\ DOMAIN b = 1..Len(b) /\ DOMAIN c = 1..Len(c)
      /\ (\A i \in DOMAIN a : a[i] \in Int) /\ (\A i \in DOMAIN b : b[i] \in Int)
      /\ (\A i \in DOMAIN c : c[i] \in Int)
  BY DEF Name
<1>1. CASE Len(a) < Len(b) /\ Agree(a, b, Len(a))
  <2>1. CASE Len(b) < Len(c) /\ Agree(b, c, Len(b))
    <3>1. Len(a) < Len(c) /\ Agree(a, c, Len(a))
      BY <1>0, <1>1, <2>1 DEF Agree
    <3> QED
      BY ONLY <3>1 DEF Before
  <2>2. CASE \E j \in DOMAIN b \cap DOMAIN c : b[j] < c[j] /\ Agree(b, c, j - 1)
    <3>1. PICK j \in DOMAIN b \cap DOMAIN c : b[j] < c[j] /\ Agree(b, c, j - 1)
      BY <2>2
    <3>2. CASE Len(a) < j
      <4>1. Len(a) < Len(c) /\ Agree(a, c, Len(a))
        BY <1>0, <1>1, <3>1, <3>2 DEF Agree
      <4> QED
        BY ONLY <4>1 DEF Before
    <3>3. CASE j <= Len(a)
      <4>1. j \in DOMAIN a \cap DOMAIN c /\ a[j] < c[j]
        BY <1>0, <1>1, <3>1, <3>3 DEF Agree
      <4>2. Agree(a, c, j - 1)
        BY <1>0, <1>1, <3>1, <3>3 DEF Agree
      <4> QED
        BY ONLY <4>1, <4>2 DEF Before
    <3>4. Len(a) < j \/ j <= Len(a)
      BY ONLY <1>0, <3>1
    <3> QED
      BY ONLY <3>2, <3>3, <3>4
  <2> QED
    BY ONLY <1>1, <2>1, <2>2, Before(b, c) DEF Before
<1>2. CASE \E i \in DOMAIN a \cap DOMAIN b : a[i] < b[i] /\ Agree(a, b, i - 1)
  <2>1. CASE Len(b) < Len(c) /\ Agree(b, c, Len(b))
    <3>1. PICK i \in DOMAIN a \cap DOMAIN b : a[i] < b[i] /\ Agree(a, b, i - 1)
      BY <1>2
    <3>2. i \in DOMAIN a \cap DOMAIN c /\ a[i] < c[i]
      BY <1>0, <2>1, <3>1 DEF Agree
    <3>3. Agree(a, c, i - 1)
      BY <1>0, <2>1, <3>1 DEF Agree
    <3> QED
      BY ONLY <3>2, <3>3 DEF Before
  <2>2. CASE \E i \in DOMAIN b \cap DOMAIN c : b[i] < c[i] /\ Agree(b, c, i - 1)
    <3>1. PICK i \in DOMAIN a \cap DOMAIN b : a[i] < b[i] /\ Agree(a, b, i - 1)
      BY <1>2
    <3>2. PICK j \in DOMAIN b \cap DOMAIN c : b[j] < c[j] /\ Agree(b, c, j - 1)
      BY <2>2
    <3>3. CASE i <= j
      <4>1. i \in DOMAIN a \cap DOMAIN c /\ a[i] < c[i]
        BY <1>0, <3>1, <3>2, <3>3 DEF Agree
      <4>2. Agree(a, c, i - 1)
        BY <1>0, <3>1, <3>2, <3>3 DEF Agree
      <4> QED
        BY <4>1, <4>2 DEF Before
    <3>4. CASE j < i
      <4>1. j \in DOMAIN a \cap DOMAIN c /\ a[j] < c[j]
        BY <1>0, <3>1, <3>2, <3>4 DEF Agree
      <4>2. Agree(a, c, j - 1)
        BY <1>0, <3>1, <3>2, <3>4 DEF Agree
      <4> QED
        BY <4>1, <4>2 DEF Before
    <3> QED
      BY <1>0, <3>1, <3>2, <3>3, <3>4
  <2> QED
    BY <2>1, <2>2 DEF Before
<1> QED
  BY <1>1, <1>2 DEF Before

LEMMA BeforeIsTotal ==
  ASSUME NEW a \in Name, NEW b \in Name, a # b
  PROVE  Before(a, b) \/ Before(b, a)
<1>0. Len(a) \in Nat /\ Len(b) \in Nat /\ Len(a) <= 3 /\ Len(b) <= 3
      /\ DOMAIN a = 1..Len(a) /\ DOMAIN b = 1..Len(b)
      /\ (\A i \in DOMAIN a : a[i] \in Int) /\ (\A i \in DOMAIN b : b[i] \in Int)
  BY DEF Name
<1>1. CASE \E i \in DOMAIN a \cap DOMAIN b : a[i] # b[i]
  <2>1. PICK i \in DOMAIN a \cap DOMAIN b : a[i] # b[i] /\ Agree(a, b, i - 1)
    <3>1. CASE 1 \in DOMAIN a \cap DOMAIN b /\ a[1] # b[1]
      BY <3>1 DEF Agree
    <3>2. CASE 2 \in DOMAIN a \cap DOMAIN b /\ a[2] # b[2] /\ a[1] = b[1]
      BY <3>2 DEF Agree
    <3>3. CASE 3 \in DOMAIN a \cap DOMAIN b /\ a[3] # b[3] /\ a[1] = b[1] /\ a[2] = b[2]
      BY <3>3 DEF Agree
    <3> QED
      BY <1>0, <1>1, <3>1, <3>2, <3>3
  <2>2. Agree(b, a, i - 1)
    BY <2>1 DEF Agree
  <2>3. a[i] < b[i] \/ b[i] < a[i]
    BY <1>0, <2>1
  <2> QED
    BY <2>1, <2>2, <2>3 DEF Before
<1>2. CASE \A i \in DOMAIN a \cap DOMAIN b : a[i] = b[i]
  <2>1. Len(a) # Len(b)
    BY <1>0, <1>2, NamesDiffer DEF Agree
  <2>2. CASE Len(a) < Len(b)
    BY <1>0, <1>2, <2>2 DEF Before, Agree
  <2>3. CASE Len(b) < Len(a)
    BY <1>0, <1>2, <2>3 DEF Before, Agree
  <2>4. Len(a) < Len(b) \/ Len(b) < Len(a)
    BY <2>1 DEF Name
  <2> QED
    BY <2>2, <2>3, <2>4
<1> QED
  BY <1>1, <1>2

--------------------------------------------------------------------------------
(***************************************************************************)
(* What each pass of the discovery leaves to the passes after it.            *)
(***************************************************************************)
Read      == {"nodes", "packages", "populate", "clusters", "check", "build", "built"}
Packed    == {"populate", "clusters", "check", "build", "built"}
Populated == {"clusters", "check", "build", "built"}
Clustered == {"check", "build", "built"}
Checked   == {"build", "built"}

\* Every CPU is on a node; only of an online one the package is what sysfs says.
CpusRead ==
  pass \in Read =>
    /\ \A c \in Cpu : machine.node[c] \in Nat /\ machine.node[c] # NoLink
    /\ cpus \in [Cpu -> [package : Int, die : Int, node : Nat]]
    /\ \A c \in Cpu : cpus[c].node = machine.node[c]
    /\ \A c \in machine.online : cpus[c].package = machine.package[c]

NodesRead ==
  pass \in {"packages", "populate"} => nodePackage = [n \in machine.numas |-> 0]

\* The packages divide the CPUs among them.
PackagesRead ==
  pass \in Packed =>
    /\ DOMAIN packages = {cpus[c].package : c \in Cpu}
    /\ \A k \in DOMAIN packages :
         /\ packages[k].cpus = {c \in Cpu : cpus[c].package = k}
         /\ packages[k].nodes = {cpus[c].node : c \in packages[k].cpus}

Claims(n) == {k \in DOMAIN packages : n \in packages[k].nodes}

\* A node some packages have is given to one of them.
NodesClaimed ==
  pass \in Populated =>
    /\ \A k \in DOMAIN packages : packages[k].nodes \subseteq machine.numas
    /\ nodePackage \in [machine.numas -> Int]
    /\ \A n \in machine.numas : Claims(n) # {} => nodePackage[n] \in Claims(n)

\* The clusters of a machine, as DiscoverClusters numbers them.
Lists(m) == {m.clusterList[c] : c \in Cpu}
Numberings(m) == Bijection(0..(Cardinality(Lists(m)) - 1), Lists(m))
ClustersOf(m, list) ==
  [i \in DOMAIN list |-> [cpus |-> list[i], node |-> m.node[Min(list[i])]]]

ClustersRead ==
  pass \in Clustered =>
    \/ clusters = <<>>
    \/ /\ machine.clusterModel
       /\ machine.online = Cpu
       /\ \A c \in Cpu : machine.clusterList[c] # NoCluster
       /\ \E list \in Numberings(machine) : clusters = ClustersOf(machine, list)

MachineAccepted ==
  pass \in Checked => ValidateSocketNodes /\ ValidateSocketStructure

PoolsBuilt ==
  pass = "built" =>
    /\ \A n \in machine.numas : nodePackage[n] \in DOMAIN packages
    /\ pools = RootPools \cup SocketPools \cup NumaPools \cup ClusterPools

\* What the proofs below need of a tree that is built.
TreeInvariant ==
  /\ machine \in Machine
  /\ CpusRead
  /\ NodesRead
  /\ PackagesRead
  /\ NodesClaimed
  /\ ClustersRead
  /\ MachineAccepted
  /\ PoolsBuilt

LEMMA TreeInitially ==
  Init => TreeInvariant
  BY DEF Init, TreeInvariant, CpusRead, NodesRead, PackagesRead, NodesClaimed, ClustersRead,
         MachineAccepted, PoolsBuilt, Read, Packed, Populated, Clustered, Checked

\* A pass that is over is not disturbed by what does not touch its results.
LEMMA Kept ==
  ASSUME UNCHANGED machine
  PROVE  /\ UNCHANGED cpus /\ (pass' \in Read => pass \in Read) /\ CpusRead => CpusRead'
         /\ UNCHANGED <<cpus, packages>> /\ (pass' \in Packed => pass \in Packed) /\ PackagesRead
              => PackagesRead'
         /\ UNCHANGED <<packages, nodePackage>> /\ (pass' \in Populated => pass \in Populated)
              /\ NodesClaimed => NodesClaimed'
         /\ UNCHANGED clusters /\ (pass' \in Clustered => pass \in Clustered) /\ ClustersRead
              => ClustersRead'
         /\ UNCHANGED packages /\ (pass' \in Checked => pass \in Checked) /\ MachineAccepted
              => MachineAccepted'
<1>1. UNCHANGED cpus /\ (pass' \in Read => pass \in Read) /\ CpusRead => CpusRead'
  BY DEF CpusRead
<1>2. UNCHANGED <<cpus, packages>> /\ (pass' \in Packed => pass \in Packed) /\ PackagesRead
        => PackagesRead'
  BY DEF PackagesRead
<1>3. UNCHANGED <<packages, nodePackage>> /\ (pass' \in Populated => pass \in Populated)
        /\ NodesClaimed => NodesClaimed'
  BY DEF NodesClaimed, Claims
<1>4. UNCHANGED clusters /\ (pass' \in Clustered => pass \in Clustered) /\ ClustersRead
        => ClustersRead'
  BY DEF ClustersRead
<1>5. UNCHANGED packages /\ (pass' \in Checked => pass \in Checked) /\ MachineAccepted
        => MachineAccepted'
  BY DEF MachineAccepted, ValidateSocketNodes, ValidateSocketStructure
<1> QED
  BY <1>1, <1>2, <1>3, <1>4, <1>5

LEMMA TreeStep ==
  TreeInvariant /\ [Next]_vars => TreeInvariant'
<1> SUFFICES ASSUME TreeInvariant, [Next]_vars PROVE TreeInvariant'
  OBVIOUS
<1> USE DEF TreeInvariant, Read, Packed, Populated, Clustered, Checked
<1>0. UNCHANGED machine /\ machine' \in Machine
  BY DEF Next, vars, DiscoverCPUs, DiscoverNodes, DiscoverPackages, PopulateNodePackageInfo,
         DiscoverClusters, CheckHWTopology, BuildPools
<1>1. CASE DiscoverCPUs
  <2>1. CpusRead'
    <3> SUFFICES ASSUME pass' \in Read PROVE CpusRead'
      BY DEF CpusRead
    <3>1. /\ \A c \in Cpu : machine.node[c] \in Nat /\ machine.node[c] # NoLink
          /\ \A c \in Cpu : machine.package[c] \in Int /\ machine.die[c] \in Int
          /\ machine.online \subseteq Cpu
      <4>1. \A c \in Cpu : machine.node[c] # NoLink
        BY <1>1 DEF DiscoverCPUs, Refuse
      <4>2. /\ machine.node \in [Cpu -> Nat \cup {NoLink}]
            /\ machine.package \in [Cpu -> Int] /\ machine.die \in [Cpu -> Int]
            /\ machine.online \subseteq Cpu
        BY Machines
      <4> QED
        BY <4>1, <4>2
    <3> QED
      BY <1>1, <3>1 DEF DiscoverCPUs, Refuse, CpusRead
  <2> QED
    BY <1>0, <1>1, <2>1 DEF DiscoverCPUs, Refuse, NodesRead, PackagesRead, NodesClaimed, ClustersRead,
       MachineAccepted, PoolsBuilt
<1>2. CASE DiscoverNodes
  <2>1. CpusRead'
    BY <1>0, <1>2, Kept DEF DiscoverNodes
  <2> QED
    BY <1>0, <1>2, <2>1 DEF DiscoverNodes, NodesRead, PackagesRead, NodesClaimed, ClustersRead,
       MachineAccepted, PoolsBuilt
<1>3. CASE DiscoverPackages
  <2>1. CpusRead'
    BY <1>0, <1>3, Kept DEF DiscoverPackages
  <2>2. PackagesRead'
    <3> DEFINE members(k) == {c \in Cpu : cpus[c].package = k}
               record(k) == [cpus |-> members(k),
                 nodes    |-> {cpus[c].node : c \in members(k)},
                 dieNodes |-> [d \in {cpus[c].die : c \in members(k)} |->
                           {cpus[c].node : c \in {c \in members(k) : cpus[c].die = d}}]]
    <3>1. packages' = [k \in {cpus[c].package : c \in Cpu} |-> record(k)] /\ UNCHANGED cpus
      BY <1>3 DEF DiscoverPackages
    <3>2. \A k : record(k).cpus = members(k) /\ record(k).nodes = {cpus[c].node : c \in members(k)}
      OBVIOUS
    <3> HIDE DEF record
    <3> QED
      BY <3>1, <3>2 DEF PackagesRead
  <2> QED
    BY <1>0, <1>3, <2>1, <2>2 DEF DiscoverPackages, NodesRead, NodesClaimed, ClustersRead,
       MachineAccepted, PoolsBuilt
<1>4. CASE PopulateNodePackageInfo
  <2>1. NodesClaimed'
    <3> SUFFICES ASSUME pass' \in Populated PROVE NodesClaimed'
      BY DEF NodesClaimed
    <3>1. \A k \in DOMAIN packages : packages[k].nodes \subseteq machine.numas
      <4>1. machine.numas # {} \/ Cpu = {}
        BY <1>4, Machines DEF PopulateNodePackageInfo, CpusRead
      <4>2. Cpu = {} => DOMAIN packages = {}
        BY <1>4 DEF PopulateNodePackageInfo, PackagesRead
      <4> QED
        BY <1>4, <4>1, <4>2 DEF PopulateNodePackageInfo, Refuse
    <3>2. /\ nodePackage' \in [machine.numas -> DOMAIN packages \cup {0}]
          /\ \A n \in machine.numas : Claims(n) # {} => nodePackage'[n] \in Claims(n)
      BY <1>4, <3>1 DEF PopulateNodePackageInfo, Refuse, Claims
    <3>3. DOMAIN packages \cup {0} \subseteq Int
      BY <1>4 DEF PopulateNodePackageInfo, PackagesRead, CpusRead
    <3>4. nodePackage' \in [machine.numas -> Int]
      BY <3>2, <3>3
    <3>5. UNCHANGED <<machine, packages>>
      BY <1>4 DEF PopulateNodePackageInfo
    <3> QED
      BY <3>1, <3>2, <3>4, <3>5 DEF NodesClaimed, Claims
  <2>2. CpusRead' /\ PackagesRead'
    BY <1>0, <1>4, Kept DEF PopulateNodePackageInfo, Refuse
  <2> QED
    BY <1>0, <1>4, <2>1, <2>2 DEF PopulateNodePackageInfo, Refuse, NodesRead, ClustersRead,
       MachineAccepted, PoolsBuilt
<1>5. CASE DiscoverClusters
  <2>1. ClustersRead'
    <3>1. \/ clusters' = <<>>
          \/ /\ machine.clusterModel
             /\ machine.online = Cpu
             /\ \A c \in Cpu : machine.clusterList[c] # NoCluster
             /\ \E list \in Numberings(machine) : clusters' = ClustersOf(machine, list)
      BY <1>5 DEF DiscoverClusters, ClustersOf, Numberings, Lists
    <3>2. machine' = machine
      BY <1>0
    <3> HIDE DEF TreeInvariant
    <3>3. ClustersRead' <=>
            (pass' \in Clustered =>
              \/ clusters' = <<>>
              \/ /\ machine'.clusterModel
                 /\ machine'.online = Cpu
                 /\ \A c \in Cpu : machine'.clusterList[c] # NoCluster
                 /\ \E list \in Numberings(machine') : clusters' = ClustersOf(machine', list))
      BY DEF ClustersRead, Numberings, Lists, ClustersOf
    <3> QED
      BY <3>1, <3>2, <3>3
  <2>2. CpusRead' /\ PackagesRead' /\ NodesClaimed'
    BY <1>0, <1>5, Kept DEF DiscoverClusters
  <2> QED
    BY <1>0, <1>5, <2>1, <2>2 DEF DiscoverClusters, NodesRead, MachineAccepted, PoolsBuilt
<1>6. CASE CheckHWTopology
  <2>1. MachineAccepted'
    BY <1>6 DEF CheckHWTopology, MachineAccepted, Refuse, ValidateSocketNodes, ValidateSocketStructure
  <2>2. CpusRead' /\ PackagesRead' /\ NodesClaimed' /\ ClustersRead'
    BY <1>0, <1>6, Kept DEF CheckHWTopology, Refuse
  <2> QED
    BY <1>0, <1>6, <2>1, <2>2 DEF CheckHWTopology, Refuse, NodesRead, PoolsBuilt
<1>7. CASE BuildPools
  <2>1. PoolsBuilt'
    BY SMTT(40), <1>7
    DEF BuildPools, PoolsBuilt, RootPools, SocketPools, NumaPools, ClusterPools, NodeCpus
  <2>2. CpusRead' /\ PackagesRead' /\ NodesClaimed' /\ ClustersRead' /\ MachineAccepted'
    BY <1>0, <1>7, Kept DEF BuildPools
  <2> QED
    BY <1>0, <1>7, <2>1, <2>2 DEF BuildPools, NodesRead
<1>8. CASE UNCHANGED vars
  <2>1. PoolsBuilt'
    <3>1. RootPools' = RootPools /\ SocketPools' = SocketPools
      BY <1>8 DEF vars, RootPools, SocketPools
    <3>2. NumaPools' = NumaPools
      BY <1>8 DEF vars, NumaPools, NodeCpus
    <3>3. ClusterPools' = ClusterPools
      BY <1>8 DEF vars, ClusterPools
    <3> QED
      BY <1>8, <3>1, <3>2, <3>3 DEF vars, PoolsBuilt
  <2>2. CpusRead' /\ PackagesRead' /\ NodesClaimed' /\ ClustersRead' /\ MachineAccepted'
    BY <1>0, <1>8, Kept DEF vars
  <2> QED
    BY <1>0, <1>8, <2>1, <2>2 DEF vars, NodesRead
<1> QED
  BY <1>1, <1>2, <1>3, <1>4, <1>5, <1>6, <1>7, <1>8 DEF Next

--------------------------------------------------------------------------------
\* The clusters that are found tell the CPUs apart, and each is on its node.
ClustersSound ==
  /\ \A i \in DOMAIN clusters :
       /\ i \in Nat
       /\ clusters[i].cpus \in (SUBSET Cpu) \ {{}}
       /\ clusters[i].node \in Nat
       /\ \A c \in clusters[i].cpus :
            machine.clusterList[c] = clusters[i].cpus /\ machine.node[c] = clusters[i].node
  /\ \A i, j \in DOMAIN clusters : clusters[i].cpus \cap clusters[j].cpus # {} => i = j
  /\ clusters # <<>> => \A c \in Cpu : \E i \in DOMAIN clusters : c \in clusters[i].cpus

LEMMA FinitelyManyLists ==
  ASSUME machine \in Machine
  PROVE  Cardinality(Lists(machine)) \in Nat
<1> DEFINE f == [c \in Cpu |-> machine.clusterList[c]]
<1>1. IsFiniteSet(Cpu)
  BY Machines
<1>2. f \in Surjection(Cpu, Lists(machine))
  BY DEF Surjection, Lists
<1> HIDE DEF f
<1> QED
  BY <1>1, <1>2, FS_Surjection, FS_CardinalityType

\* No two clusters share a CPU, for no two lists do.
LEMMA ClustersAreSound ==
  ASSUME TreeInvariant, pass = "built", machine.clusterAffinity
  PROVE  ClustersSound
<1>1. CASE clusters = <<>>
  BY <1>1 DEF ClustersSound
<1>2. CASE clusters # <<>>
  <2> DEFINE L == Lists(machine)
  <2>1. /\ machine.clusterModel /\ machine.online = Cpu /\ machine \in Machine
        /\ \A c \in Cpu : machine.clusterList[c] # NoCluster
        /\ \E list \in Numberings(machine) : clusters = ClustersOf(machine, list)
        /\ \A c \in Cpu : machine.node[c] \in Nat
    BY <1>2 DEF TreeInvariant, ClustersRead, Clustered, CpusRead, Read
  <2>2. ASSUME NEW c \in Cpu
        PROVE  /\ c \in machine.clusterList[c] /\ machine.clusterList[c] \subseteq Cpu
               /\ \A d \in machine.clusterList[c] :
                    machine.clusterList[d] = machine.clusterList[c] /\ machine.node[d] = machine.node[c]
    BY <2>1, Machines, ClustersInNodes
  <2>3. Cpu \subseteq Nat
    BY Machines
  <2>4. \A x \in L : x \in SUBSET Nat /\ x # {} /\ Min(x) \in x /\ Min(x) \in Nat
    <3>1. \A x \in L : x \in SUBSET Nat /\ x # {}
      BY <2>2, <2>3 DEF Lists
    <3> HIDE DEF L
    <3> QED
      BY <3>1, MinIsLeast
  <2>5. \A x \in L : \A c \in x :
           c \in Cpu /\ machine.clusterList[c] = x /\ machine.node[c] = machine.node[Min(x)]
    BY <2>2, <2>4 DEF Lists
  <2>6. PICK list \in Numberings(machine) : clusters = ClustersOf(machine, list)
    BY <2>1
  <2>7. /\ DOMAIN clusters = DOMAIN list /\ DOMAIN list \subseteq Nat
        /\ \A i \in DOMAIN clusters : /\ list[i] \in L /\ clusters[i].cpus = list[i]
                                      /\ clusters[i].node = machine.node[Min(list[i])]
    <3>1. Cardinality(Lists(machine)) \in Nat
      BY <2>1, FinitelyManyLists
    <3>2. list \in [0..(Cardinality(Lists(machine)) - 1) -> Lists(machine)]
      BY <2>6 DEF Numberings, Bijection, Injection
    <3> QED
      BY <2>6, <3>1, <3>2 DEF ClustersOf
  <2>8. \A i, j \in DOMAIN list : list[i] = list[j] => i = j
    BY <2>6 DEF Numberings, Bijection, Injection, IsInjective
  <2>9. \A x \in L : \E i \in DOMAIN list : list[i] = x
    BY <2>6 DEF Numberings, Bijection, Surjection
  <2> HIDE DEF L
  <2>10. ASSUME NEW i \in DOMAIN clusters
         PROVE  /\ i \in Nat
                /\ clusters[i].cpus \in (SUBSET Cpu) \ {{}}
                /\ clusters[i].node \in Nat
                /\ \A c \in clusters[i].cpus :
                     machine.clusterList[c] = clusters[i].cpus /\ machine.node[c] = clusters[i].node
    <3> DEFINE x == list[i]
    <3>1. x \in L /\ i \in Nat /\ clusters[i].cpus = x /\ clusters[i].node = machine.node[Min(x)]
      BY <2>7
    <3> HIDE DEF x
    <3>2. x # {} /\ Min(x) \in x /\ \A c \in x : c \in Cpu
      BY <2>4, <2>5, <3>1
    <3>3. x \in (SUBSET Cpu) \ {{}} /\ machine.node[Min(x)] \in Nat
      BY <2>1, <3>2
    <3> QED
      BY <2>5, <3>1, <3>3
  <2>11. \A i, j \in DOMAIN clusters : clusters[i].cpus \cap clusters[j].cpus # {} => i = j
    <3> TAKE i, j \in DOMAIN clusters
    <3> HAVE clusters[i].cpus \cap clusters[j].cpus # {}
    <3>1. clusters[i].cpus = clusters[j].cpus
      BY <2>10
    <3> QED
      BY <2>7, <2>8, <3>1
  <2>12. \A c \in Cpu : \E i \in DOMAIN clusters : c \in clusters[i].cpus
    <3> TAKE c \in Cpu
    <3>1. machine.clusterList[c] \in L
      BY DEF L, Lists
    <3>2. PICK i \in DOMAIN list : list[i] = machine.clusterList[c]
      BY <2>9, <3>1
    <3> QED
      BY <2>2, <2>7, <3>2
  <2> QED
    BY <2>10, <2>11, <2>12 DEF ClustersSound
<1> QED
  BY <1>1, <1>2

--------------------------------------------------------------------------------
(***************************************************************************)
(* The pools of a tree that is built.                                        *)
(***************************************************************************)
Built == TreeInvariant /\ pass = "built"

\* A pool's name is a way down the tree, and says which CPUs it has.
NamedWell(p) ==
  /\ p = PoolNamed(p.name, p.cpus)
  /\ p.name \in Name
  /\ Len(p.name) = 0 => p.cpus = Cpu
  /\ Len(p.name) >= 1 => p.name[1] \in DOMAIN packages
  /\ Len(p.name) = 1 => p.cpus = {c \in Cpu : cpus[c].package = p.name[1]}
  /\ Len(p.name) >= 2 => p.name[2] \in machine.numas /\ p.name[1] = nodePackage[p.name[2]]
  /\ Len(p.name) = 2 => p.cpus = NodeCpus(p.name[2])
  /\ Len(p.name) = 3 => /\ machine.clusterAffinity
                        /\ p.name[3] \in DOMAIN clusters
                        /\ p.name[2] = clusters[p.name[3]].node
                        /\ p.cpus = clusters[p.name[3]].cpus

LEMMA RootName ==
  <<>> \in Name /\ Len(<<>>) = 0
  BY DEF Name

LEMMA SocketName ==
  ASSUME NEW a \in Int
  PROVE  <<a>> \in Name /\ Len(<<a>>) = 1 /\ <<a>>[1] = a
  BY DEF Name

LEMMA NumaName ==
  ASSUME NEW a \in Int, NEW b \in Int
  PROVE  <<a, b>> \in Name /\ Len(<<a, b>>) = 2 /\ <<a, b>>[1] = a /\ <<a, b>>[2] = b
  BY DEF Name

LEMMA ClusterName ==
  ASSUME NEW a \in Int, NEW b \in Int, NEW c \in Int
  PROVE  /\ <<a, b, c>> \in Name /\ Len(<<a, b, c>>) = 3
         /\ <<a, b, c>>[1] = a /\ <<a, b, c>>[2] = b /\ <<a, b, c>>[3] = c
  BY DEF Name

LEMMA NameLengths ==
  ASSUME NEW a \in Name
  PROVE  a \in Seq(Int) /\ Len(a) \in {0, 1, 2, 3}
<1>1. a \in Seq(Int) /\ Len(a) <= 3
  BY DEF Name
<1>2. Len(a) \in Nat
  BY <1>1
<1>3. \A n \in Nat : n <= 3 => n \in {0, 1, 2, 3}
  OBVIOUS
<1> QED
  BY <1>1, <1>2, <1>3

\* The node of a CPU is given to the CPU's package, which no other package claims.
LEMMA CpusHaveNodes ==
  ASSUME Built
  PROVE  /\ \A c \in Cpu : /\ cpus[c].package \in DOMAIN packages
                           /\ cpus[c].node \in machine.numas
                           /\ nodePackage[cpus[c].node] = cpus[c].package
                           /\ cpus[c].node = machine.node[c]
         /\ DOMAIN packages \subseteq Int /\ machine.numas \subseteq Nat
         /\ machine.online \subseteq Cpu
         /\ \A n \in machine.numas : nodePackage[n] \in DOMAIN packages
<1>0. machine \in Machine /\ CpusRead /\ PackagesRead /\ NodesClaimed /\ MachineAccepted /\ PoolsBuilt
      /\ pass = "built"
  BY DEF Built, TreeInvariant
<1>1. machine.numas \subseteq Nat /\ machine.online \subseteq Cpu
  BY <1>0, Machines
<1>2. ASSUME NEW c \in Cpu
      PROVE  /\ cpus[c].package \in DOMAIN packages
             /\ cpus[c].node \in machine.numas
             /\ nodePackage[cpus[c].node] = cpus[c].package
             /\ cpus[c].node = machine.node[c]
  <2> DEFINE k == cpus[c].package
             n == cpus[c].node
  <2>1. k \in DOMAIN packages /\ n \in packages[k].nodes /\ n = machine.node[c]
    BY <1>0 DEF CpusRead, PackagesRead, Read, Packed
  <2>2. n \in machine.numas
    BY <1>0, <2>1 DEF NodesClaimed, Populated
  <2>3. k \in Claims(n)
    BY <2>1 DEF Claims
  <2>4. nodePackage[n] \in Claims(n)
    BY <1>0, <2>2, <2>3 DEF NodesClaimed, Populated
  <2>5. \A l \in Claims(n) : l = k
    BY <1>0, <2>1 DEF MachineAccepted, Checked, ValidateSocketNodes, Claims
  <2> QED
    BY <2>1, <2>2, <2>4, <2>5
<1>3. DOMAIN packages \subseteq Int
  BY <1>0 DEF CpusRead, PackagesRead, Read, Packed
<1> QED
  BY <1>0, <1>1, <1>2, <1>3 DEF PoolsBuilt

LEMMA PoolsAreNamedWell ==
  ASSUME Built, NEW p \in pools
  PROVE  NamedWell(p)
<1>1. /\ DOMAIN packages \subseteq Int /\ machine.numas \subseteq Nat
      /\ \A n \in machine.numas : nodePackage[n] \in DOMAIN packages
  BY CpusHaveNodes
<1>2. pools = RootPools \cup SocketPools \cup NumaPools \cup ClusterPools /\ PackagesRead /\ pass = "built"
  BY DEF Built, TreeInvariant, PoolsBuilt
<1>3. CASE p \in RootPools
  <2>1. p = PoolNamed(<<>>, Cpu)
    BY <1>3 DEF RootPools
  <2>2. p.name = <<>> /\ p.cpus = Cpu
    BY <2>1 DEF PoolNamed
  <2> HIDE DEF NamedWell
  <2>3. p.name \in Name /\ Len(p.name) = 0
    BY <2>2, RootName
  <2> QED
    BY <2>1, <2>2, <2>3 DEF NamedWell
<1>4. CASE p \in SocketPools
  <2>1. PICK k \in DOMAIN packages : p = PoolNamed(<<k>>, packages[k].cpus)
    BY <1>4 DEF SocketPools
  <2>2. p.name = <<k>> /\ p.cpus = packages[k].cpus
    BY <2>1 DEF PoolNamed
  <2>3. p.name \in Name /\ Len(p.name) = 1 /\ p.name[1] = k
    <3>1. k \in Int
      BY <1>1
    <3> QED
      BY <2>2, <3>1, SocketName
  <2>4. p.cpus = {c \in Cpu : cpus[c].package = k}
    BY <1>2, <2>2 DEF PackagesRead, Packed
  <2> QED
    <3>1. p = PoolNamed(p.name, p.cpus) /\ p.name[1] \in DOMAIN packages
      BY <2>1, <2>2, <2>3
    <3>2. p.cpus = {c \in Cpu : cpus[c].package = p.name[1]}
      BY <2>3, <2>4
    <3> QED
      BY <2>3, <3>1, <3>2 DEF NamedWell
<1>5. CASE p \in NumaPools
  <2>1. PICK n \in machine.numas : p = PoolNamed(<<nodePackage[n], n>>, NodeCpus(n))
    BY <1>5 DEF NumaPools
  <2>2. p.name = <<nodePackage[n], n>> /\ p.cpus = NodeCpus(n)
    BY <2>1 DEF PoolNamed
  <2>3. n \in Int /\ nodePackage[n] \in Int
    BY <1>1
  <2>4. p.name \in Name /\ Len(p.name) = 2 /\ p.name[1] = nodePackage[n] /\ p.name[2] = n
    <3> DEFINE k == nodePackage[n]
    <3> HIDE DEF k
    <3>1. k \in Int /\ p.name = <<k, n>>
      BY <2>2, <2>3 DEF k
    <3>2. <<k, n>> \in Name /\ Len(<<k, n>>) = 2 /\ <<k, n>>[1] = k /\ <<k, n>>[2] = n
      BY <2>3, <3>1, NumaName
    <3>3. p.name \in Name /\ Len(p.name) = 2 /\ p.name[1] = k /\ p.name[2] = n
      BY <3>1, <3>2
    <3> QED
      BY <3>3 DEF k
  <2> QED
    BY <1>1, <2>1, <2>2, <2>4 DEF NamedWell
<1>6. CASE p \in ClusterPools
  <2>1. machine.clusterAffinity
    BY <1>6 DEF ClusterPools
  <2>2. PICK i \in DOMAIN clusters :
          /\ clusters[i].node \in machine.numas
          /\ p = PoolNamed(<<nodePackage[clusters[i].node], clusters[i].node, i>>, clusters[i].cpus)
    BY <1>6 DEF ClusterPools
  <2> DEFINE n == clusters[i].node
  <2>3. p.name = <<nodePackage[n], n, i>> /\ p.cpus = clusters[i].cpus
    BY <2>2 DEF PoolNamed
  <2>4. n \in Int /\ nodePackage[n] \in Int /\ i \in Int
    BY <1>1, <2>1, <2>2, ClustersAreSound DEF ClustersSound, Built
  <2> HIDE DEF n
  <2>5. p.name \in Name /\ Len(p.name) = 3 /\ p.name[1] = nodePackage[n] /\ p.name[2] = n /\ p.name[3] = i
    <3> DEFINE k == nodePackage[n]
    <3> HIDE DEF k
    <3>1. k \in Int /\ p.name = <<k, n, i>>
      BY <2>3, <2>4 DEF k, n
    <3>2. /\ <<k, n, i>> \in Name /\ Len(<<k, n, i>>) = 3
          /\ <<k, n, i>>[1] = k /\ <<k, n, i>>[2] = n /\ <<k, n, i>>[3] = i
      BY <2>4, <3>1, ClusterName
    <3>3. p.name \in Name /\ Len(p.name) = 3 /\ p.name[1] = k /\ p.name[2] = n /\ p.name[3] = i
      BY <3>1, <3>2
    <3> QED
      BY <3>3 DEF k
  <2>6. n = clusters[i].node /\ n \in machine.numas
    BY <2>2 DEF n
  <2>7. p = PoolNamed(p.name, p.cpus)
    BY <2>2, <2>3 DEF n
  <2> QED
    BY <1>1, <2>1, <2>3, <2>5, <2>6, <2>7 DEF NamedWell
<1> QED
  BY <1>2, <1>3, <1>4, <1>5, <1>6

\* Only the virtual root has no IDs in its name.
LEMMA LongNames ==
  ASSUME Built, NEW p \in SocketPools \cup NumaPools \cup ClusterPools
  PROVE  Len(p.name) # 0
<1>1. CASE p \in SocketPools
  BY <1>1 DEF SocketPools, PoolNamed
<1>2. CASE p \in NumaPools
  BY <1>2 DEF NumaPools, PoolNamed
<1>3. CASE p \in ClusterPools
  <2>1. PICK i \in DOMAIN clusters :
          p = PoolNamed(<<nodePackage[clusters[i].node], clusters[i].node, i>>, clusters[i].cpus)
    BY <1>3 DEF ClusterPools
  <2>2. p.name = <<nodePackage[clusters[i].node], clusters[i].node, i>>
    BY <2>1 DEF PoolNamed
  <2> QED
    BY <2>2
<1> QED
  BY <1>1, <1>2, <1>3

\* No two pools have one name.
LEMMA NamesTellPools ==
  ASSUME Built, NEW p \in pools, NEW q \in pools, p.name = q.name
  PROVE  p = q
<1>1. NamedWell(p) /\ NamedWell(q)
  BY PoolsAreNamedWell
<1>2. Len(p.name) \in {0, 1, 2, 3}
  BY <1>1, NameLengths DEF NamedWell
<1>3. p.cpus = q.cpus
  <2>1. CASE Len(p.name) = 0
    BY <1>1, <2>1 DEF NamedWell
  <2>2. CASE Len(p.name) = 1
    BY <1>1, <2>2 DEF NamedWell
  <2>3. CASE Len(p.name) = 2
    BY <1>1, <2>3 DEF NamedWell
  <2>4. CASE Len(p.name) = 3
    BY <1>1, <2>4 DEF NamedWell
  <2> QED
    BY <1>2, <2>1, <2>2, <2>3, <2>4
<1> QED
  BY <1>1, <1>3 DEF NamedWell

\* The CPUs of a pool have its name on their way down the tree.
LEMMA CpusOnTheWay ==
  ASSUME Built, NEW p \in pools, NEW c \in p.cpus
  PROVE  /\ c \in Cpu
         /\ Len(p.name) >= 1 => p.name[1] = cpus[c].package
         /\ Len(p.name) >= 2 => p.name[2] = cpus[c].node
         /\ Len(p.name) = 2 => c \in machine.online
         /\ Len(p.name) = 3 => /\ p.name[3] \in DOMAIN clusters /\ c \in clusters[p.name[3]].cpus
                               /\ machine.online = Cpu
<1>1. NamedWell(p) /\ Len(p.name) \in {0, 1, 2, 3}
  <2>1. NamedWell(p)
    BY PoolsAreNamedWell
  <2> QED
    BY <2>1, NameLengths DEF NamedWell
<1>2. CASE Len(p.name) = 0
  BY <1>1, <1>2 DEF NamedWell
<1>3. CASE Len(p.name) = 1
  BY <1>1, <1>3 DEF NamedWell
<1>4. CASE Len(p.name) = 2
  <2>1. c \in machine.online /\ machine.node[c] = p.name[2] /\ p.name[1] = nodePackage[p.name[2]]
    BY <1>1, <1>4 DEF NamedWell, NodeCpus
  <2> QED
    BY <1>4, <2>1, CpusHaveNodes
<1>5. CASE Len(p.name) = 3
  <2>1. /\ machine.clusterAffinity /\ p.name[3] \in DOMAIN clusters
        /\ p.name[2] = clusters[p.name[3]].node /\ c \in clusters[p.name[3]].cpus
        /\ p.name[1] = nodePackage[p.name[2]]
    BY <1>1, <1>5 DEF NamedWell
  <2>2. c \in Cpu /\ machine.node[c] = p.name[2]
    BY <2>1, ClustersAreSound DEF ClustersSound, Built
  <2>3. machine.online = Cpu
    BY <2>1 DEF Built, TreeInvariant, ClustersRead, Clustered
  <2> QED
    BY <1>5, <2>1, <2>2, <2>3, CpusHaveNodes
<1> QED
  BY <1>1, <1>2, <1>3, <1>4, <1>5

\* Pools that share a CPU: the shorter name begins the longer one.
LEMMA OverlapIsNesting ==
  ASSUME Built, NEW p \in pools, NEW q \in pools, NEW c \in p.cpus \cap q.cpus,
         Len(p.name) <= Len(q.name)
  PROVE  p \in Ancestors(q)
<1>1. NamedWell(p) /\ NamedWell(q)
  BY PoolsAreNamedWell
<1>2. p.name \in Seq(Int) /\ q.name \in Seq(Int) /\ Len(p.name) \in {0, 1, 2, 3} /\ Len(q.name) \in {0, 1, 2, 3}
  <2>1. p.name \in Name /\ q.name \in Name
    BY <1>1 DEF NamedWell
  <2> QED
    BY <2>1, NameLengths
<1>3. Len(p.name) >= 1 => p.name[1] = q.name[1]
  BY <1>2, CpusOnTheWay
<1>4. Len(p.name) >= 2 => p.name[2] = q.name[2]
  BY <1>2, CpusOnTheWay
<1>5. Len(p.name) = 3 => p.name[3] = q.name[3]
  <2> HAVE Len(p.name) = 3
  <2>1. Len(q.name) = 3
    BY SMTT(40), <1>2
  <2>4. machine.clusterAffinity
    BY <1>1 DEF NamedWell
  <2>2. ClustersSound
    BY <2>4, ClustersAreSound DEF Built
  <2>3. /\ p.name[3] \in DOMAIN clusters /\ q.name[3] \in DOMAIN clusters
        /\ c \in clusters[p.name[3]].cpus \cap clusters[q.name[3]].cpus
    BY <2>1, CpusOnTheWay
  <2> QED
    BY <2>2, <2>3 DEF ClustersSound
<1>6. Agree(p.name, q.name, Len(p.name))
  <2> SUFFICES ASSUME NEW i \in 1..Len(p.name) PROVE p.name[i] = q.name[i]
    BY DEF Agree
  <2>1. CASE Len(p.name) = 1
    BY <1>3, <2>1
  <2>2. CASE Len(p.name) = 2
    BY <1>3, <1>4, <2>2
  <2>3. CASE Len(p.name) = 3
    BY <1>3, <1>4, <1>5, <2>3
  <2> QED
    BY <1>2, <2>1, <2>2, <2>3
<1> QED
  BY <1>2, <1>6, PrefixesAgree DEF Ancestors

\* A pool's CPUs are among those of the pools above it.
LEMMA AncestorsContain ==
  ASSUME Built, NEW p \in pools, NEW q \in Ancestors(p)
  PROVE  p.cpus \subseteq q.cpus
<1>1. q \in pools /\ NamedWell(p) /\ NamedWell(q) /\ IsPrefix(q.name, p.name)
  BY PoolsAreNamedWell DEF Ancestors
<1>2. p.name \in Seq(Int) /\ q.name \in Seq(Int) /\ Len(p.name) \in {0, 1, 2, 3} /\ Len(q.name) \in {0, 1, 2, 3}
      /\ p.name \in Name /\ q.name \in Name
  <2>1. p.name \in Name /\ q.name \in Name
    BY <1>1 DEF NamedWell
  <2> QED
    BY <2>1, NameLengths
<1>3. Len(q.name) <= Len(p.name) /\ \A i \in 1..Len(q.name) : q.name[i] = p.name[i]
  BY <1>1, <1>2, PrefixesAgree DEF Agree
<1> SUFFICES ASSUME NEW c \in p.cpus PROVE c \in q.cpus
  OBVIOUS
<1>4. CASE Len(q.name) = Len(p.name)
  <2>1. Agree(q.name, p.name, Len(q.name))
    BY <1>3 DEF Agree
  <2>2. q.name = p.name
    BY <1>2, <1>4, <2>1, NamesDiffer
  <2> QED
    BY <1>1, <2>2, NamesTellPools
<1>5. CASE Len(q.name) < Len(p.name) /\ Len(q.name) = 0
  BY <1>1, <1>5, CpusOnTheWay DEF NamedWell
<1>6. CASE Len(q.name) < Len(p.name) /\ Len(q.name) = 1
  <2>1. q.name[1] = p.name[1] /\ q.cpus = {d \in Cpu : cpus[d].package = q.name[1]}
    BY <1>1, <1>3, <1>6 DEF NamedWell
  <2>2. c \in Cpu /\ p.name[1] = cpus[c].package
    BY <1>2, <1>6, CpusOnTheWay
  <2> QED
    BY <2>1, <2>2
<1>7. CASE Len(q.name) < Len(p.name) /\ Len(q.name) = 2
  <2>1. q.name[2] = p.name[2] /\ Len(p.name) = 3
    <3>1. 2 \in 1..Len(q.name)
      BY <1>7
    <3>2. q.name[2] = p.name[2]
      BY <1>3, <3>1
    <3>3. Len(p.name) = 3
      <4>1. \A n \in {0, 1, 2, 3} : 2 < n => n = 3
        OBVIOUS
      <4>2. Len(q.name) = 2 /\ Len(q.name) < Len(p.name)
        BY <1>7
      <4>3. 2 < Len(p.name)
        BY <4>2
      <4> QED
        BY <1>2, <4>1, <4>3
    <3> QED
      BY <3>2, <3>3
  <2>4. q.cpus = NodeCpus(q.name[2])
    BY <1>1, <1>7 DEF NamedWell
  <2>2. c \in Cpu /\ p.name[2] = cpus[c].node /\ machine.online = Cpu
    BY <2>1, CpusOnTheWay
  <2>3. machine.node[c] = cpus[c].node
    BY <2>2, CpusHaveNodes
  <2> QED
    BY <2>1, <2>2, <2>3, <2>4 DEF NodeCpus
<1> QED
  BY SMTT(40), <1>2, <1>3, <1>4, <1>5, <1>6, <1>7

LEMMA PoolsAreFinite ==
  ASSUME Built
  PROVE  IsFiniteSet(pools)
<1>0. /\ machine \in Machine /\ pass = "built"
      /\ PackagesRead /\ PoolsBuilt /\ ClustersRead
  BY DEF Built, TreeInvariant
<1>1. IsFiniteSet(Cpu) /\ IsFiniteSet(machine.numas)
  BY <1>0, Machines
<1>2. IsFiniteSet(DOMAIN packages)
  <2> DEFINE f == [c \in Cpu |-> cpus[c].package]
  <2>1. f \in Surjection(Cpu, DOMAIN packages)
    BY <1>0 DEF Surjection, PackagesRead, Packed
  <2> HIDE DEF f
  <2> QED
    BY <1>1, <2>1, FS_Surjection
<1>3. IsFiniteSet(RootPools)
  BY FS_Singleton, FS_EmptySet DEF RootPools
<1>4. IsFiniteSet(SocketPools)
  <2> DEFINE f == [k \in DOMAIN packages |-> PoolNamed(<<k>>, packages[k].cpus)]
  <2>1. f \in Surjection(DOMAIN packages, SocketPools)
    BY DEF Surjection, SocketPools
  <2> HIDE DEF f
  <2> QED
    BY <1>2, <2>1, FS_Surjection
<1>5. IsFiniteSet(NumaPools)
  <2> DEFINE f == [n \in machine.numas |-> PoolNamed(<<nodePackage[n], n>>, NodeCpus(n))]
  <2>1. f \in Surjection(machine.numas, NumaPools)
    BY DEF Surjection, NumaPools
  <2> HIDE DEF f
  <2> QED
    BY <1>1, <2>1, FS_Surjection
<1>6. IsFiniteSet(DOMAIN clusters)
  <2>1. CASE clusters = <<>>
    BY <2>1, FS_EmptySet
  <2>2. ASSUME NEW list \in Numberings(machine), clusters = ClustersOf(machine, list)
        PROVE  IsFiniteSet(DOMAIN clusters)
    <3>1. DOMAIN clusters = 0..(Cardinality(Lists(machine)) - 1)
      BY <2>2 DEF ClustersOf, Numberings, Bijection, Injection
    <3>2. 0 \in Int /\ Cardinality(Lists(machine)) - 1 \in Int
      BY <1>0, FinitelyManyLists
    <3> QED
      BY <3>1, <3>2, FS_Interval
  <2> QED
    BY <1>0, <2>1, <2>2 DEF ClustersRead, Clustered
<1>7. IsFiniteSet(ClusterPools)
  <2> DEFINE used == {j \in DOMAIN clusters : clusters[j].node \in machine.numas}
             f == [i \in used |->
               PoolNamed(<<nodePackage[clusters[i].node], clusters[i].node, i>>, clusters[i].cpus)]
  <2>1. CASE machine.clusterAffinity
    <3>1. f \in Surjection(used, ClusterPools)
      BY <2>1 DEF Surjection, ClusterPools
    <3>2. IsFiniteSet(used)
      BY <1>6, FS_Subset
    <3> HIDE DEF f, used
    <3> QED
      BY <3>1, <3>2, FS_Surjection
  <2>2. CASE ~machine.clusterAffinity
    BY <2>2, FS_EmptySet DEF ClusterPools
  <2> QED
    BY <2>1, <2>2
<1>8. pools = RootPools \cup SocketPools \cup NumaPools \cup ClusterPools
  BY <1>0 DEF PoolsBuilt
<1> QED
  BY <1>3, <1>4, <1>5, <1>7, <1>8, FS_Union

\* collectNodes comes to the pools in the order of their names.
LEMMA CollectedInOrder ==
  ASSUME Built, NEW p \in pools, NEW q \in pools
  PROVE  CollectedBefore(q, p) <=> Before(q.name, p.name)
<1> DEFINE a == q.name
           b == p.name
<1>1. a \in Seq(Int) /\ b \in Seq(Int) /\ a \in Name /\ b \in Name
      /\ Len(a) \in Nat /\ Len(b) \in Nat /\ DOMAIN a = 1..Len(a) /\ DOMAIN b = 1..Len(b)
  <2>1. a \in Name /\ b \in Name
    BY PoolsAreNamedWell DEF NamedWell
  <2> HIDE DEF a, b
  <2>2. a \in Seq(Int) /\ b \in Seq(Int)
    BY <2>1, NameLengths
  <2> QED
    BY <2>1, <2>2
<1>2. q # p <=> a # b
  BY NamesTellPools
<1> HIDE DEF a, b
<1>3. IsPrefix(a, b) /\ a # b <=> Len(a) < Len(b) /\ Agree(a, b, Len(a))
  BY <1>1, PrefixesAgree, NamesDiffer
<1>4. ASSUME NEW i \in DOMAIN a \cap DOMAIN b
      PROVE  SubSeq(a, 1, i - 1) = SubSeq(b, 1, i - 1) <=> Agree(a, b, i - 1)
  <2>1. i - 1 \in Nat /\ i - 1 <= Len(a) /\ i - 1 <= Len(b)
    BY <1>1
  <2> QED
    BY <1>1, <2>1, Beginnings
<1>5. (\E i \in DOMAIN a \cap DOMAIN b : a[i] < b[i] /\ SubSeq(a, 1, i - 1) = SubSeq(b, 1, i - 1))
        <=> (\E i \in DOMAIN a \cap DOMAIN b : a[i] < b[i] /\ Agree(a, b, i - 1))
  BY <1>4
<1> QED
  BY <1>2, <1>3, <1>5 DEF CollectedBefore, Before, a, b

\* So the number of a pool is the number of pools before it.
LEMMA NodeIDsCount ==
  ASSUME Built
  PROVE  /\ {NodeID(p) : p \in pools} = 0..(Cardinality(pools) - 1)
         /\ \A p, q \in pools : Before(p.name, q.name) <=> NodeID(p) < NodeID(q)
<1> DEFINE R == {pq \in pools \X pools : Before(pq[1].name, pq[2].name)}
           rank(x) == Cardinality({y \in pools : <<y, x>> \in R})
<1>1. \A x, y \in pools : <<x, y>> \in R <=> Before(x.name, y.name)
  OBVIOUS
<1>2. \A x \in pools : rank(x) = NodeID(x)
  <2> TAKE x \in pools
  <2>1. {y \in pools : <<y, x>> \in R} = {y \in pools : CollectedBefore(y, x)}
    BY <1>1, CollectedInOrder
  <2> QED
    BY <2>1 DEF NodeID
<1>3. \A x \in pools : x.name \in Name
  BY PoolsAreNamedWell DEF NamedWell
<1> HIDE DEF R
<1>4. \A x \in pools : <<x, x>> \notin R
  BY <1>1, <1>3, BeforeIsStrict
<1>5. \A x, y \in pools : x # y => <<x, y>> \in R \/ <<y, x>> \in R
  BY <1>1, <1>3, BeforeIsTotal, NamesTellPools
<1>6. \A x, y, z \in pools : <<x, y>> \in R /\ <<y, z>> \in R => <<x, z>> \in R
  BY <1>1, <1>3, BeforeIsTransitive
<1>7. /\ {rank(x) : x \in pools} = 0..(Cardinality(pools) - 1)
      /\ \A x, y \in pools : <<x, y>> \in R <=> rank(x) < rank(y)
  BY <1>4, <1>5, <1>6, PoolsAreFinite, Ranks
<1> HIDE DEF rank
<1>8. {rank(x) : x \in pools} = {NodeID(x) : x \in pools}
  BY <1>2
<1> QED
  BY <1>1, <1>2, <1>7, <1>8

\* The virtual root, or the only socket, is above every pool.
LEMMA RootIsAbove ==
  ASSUME Built, NEW p \in pools
  PROVE  \E r \in pools : \A q \in pools : r \in Ancestors(q)
<1>0. PackagesRead /\ MachineAccepted /\ PoolsBuilt /\ pass = "built"
  BY DEF Built, TreeInvariant
<1>1. pools = RootPools \cup SocketPools \cup NumaPools \cup ClusterPools
  BY <1>0 DEF PoolsBuilt
<1>2. \A q \in pools : q.name \in Name /\ NamedWell(q)
  BY PoolsAreNamedWell DEF NamedWell
<1>3. CASE Cardinality(DOMAIN packages) > 1
  <2> DEFINE r == PoolNamed(<<>>, Cpu)
  <2>1. r \in pools
    BY <1>1, <1>3 DEF RootPools
  <2>2. r.name = <<>>
    BY DEF PoolNamed
  <2> HIDE DEF r
  <2>3. r.name \in Seq(Int) /\ Len(r.name) = 0
    BY <2>2, RootName, NameLengths
  <2>4. ASSUME NEW q \in pools PROVE r \in Ancestors(q)
    <3>1. q.name \in Seq(Int) /\ Len(q.name) \in Nat
      BY <1>2, NameLengths
    <3>2. Len(r.name) <= Len(q.name) /\ Agree(r.name, q.name, Len(r.name))
      BY <2>3, <3>1 DEF Agree
    <3> QED
      BY <2>1, <2>3, <3>1, <3>2, PrefixesAgree DEF Ancestors
  <2> QED
    BY <2>1, <2>4
<1>4. CASE ~(Cardinality(DOMAIN packages) > 1)
  <2>1. IsFiniteSet(DOMAIN packages)
    <3> DEFINE f == [c \in Cpu |-> cpus[c].package]
    <3>1. f \in Surjection(Cpu, DOMAIN packages)
      BY <1>0 DEF Surjection, PackagesRead, Packed
    <3>2. IsFiniteSet(Cpu)
      BY Machines
    <3> HIDE DEF f
    <3> QED
      BY <3>1, <3>2, FS_Surjection
  <2>2. Cardinality(DOMAIN packages) \in Nat
    BY <2>1, FS_CardinalityType
  <2>3. PICK k \in DOMAIN packages : TRUE
    <3>1. Len(p.name) # 0
      BY <1>1, <1>4, LongNames DEF RootPools
    <3>2. Len(p.name) \in Nat
      BY <1>2, NameLengths
    <3> QED
      BY <1>2, <3>1, <3>2 DEF NamedWell
  <2>4. Cardinality(DOMAIN packages) = 1
    BY <1>4, <2>1, <2>2, <2>3, FS_EmptySet
  <2>5. \A l \in DOMAIN packages : l = k
    BY <2>1, <2>3, <2>4, FS_Singleton
  <2> DEFINE r == PoolNamed(<<k>>, packages[k].cpus)
  <2>6. r \in pools
    BY <1>1, <2>3 DEF SocketPools
  <2>7. r.name = <<k>> /\ k \in Int
    BY <2>3, CpusHaveNodes DEF PoolNamed
  <2> HIDE DEF r
  <2>8. r.name \in Seq(Int) /\ Len(r.name) = 1 /\ r.name[1] = k
    BY <2>7, SocketName, NameLengths
  <2>9. ASSUME NEW q \in pools PROVE r \in Ancestors(q)
    <3>1. q.name \in Seq(Int) /\ Len(q.name) \in Nat
      BY <1>2, NameLengths
    <3>2. Len(q.name) # 0
      BY <1>1, <1>4, LongNames DEF RootPools
    <3>3. q.name[1] = k
      BY <1>2, <2>5, <3>1, <3>2 DEF NamedWell
    <3>4. Len(r.name) <= Len(q.name) /\ Agree(r.name, q.name, Len(r.name))
      BY <2>8, <3>1, <3>2, <3>3 DEF Agree
    <3> QED
      BY <2>6, <2>8, <3>1, <3>4, PrefixesAgree DEF Ancestors
  <2> QED
    BY <2>6, <2>9
<1> QED
  BY <1>3, <1>4

\* The tree of a machine that is accepted ...
LEMMA TreeIsBuilt ==
  ASSUME Built
  PROVE  PoolsFormTree
<1>1. {NodeID(p) : p \in pools} = 0..(Cardinality(pools) - 1)
  BY NodeIDsCount
<1>2. \A p, q \in pools : Before(p.name, q.name) <=> NodeID(p) < NodeID(q)
  BY NodeIDsCount
<1>3. \A p \in pools : NodeID(p) \in Nat
  <2>1. Cardinality(pools) \in Nat
    BY PoolsAreFinite, FS_CardinalityType
  <2> DEFINE n == Cardinality(pools) - 1
  <2>2. n \in Int /\ \A i \in 0..n : i \in Nat
    BY <2>1
  <2> HIDE DEF n
  <2>3. \A p \in pools : NodeID(p) \in 0..n
    BY <1>1 DEF n
  <2> QED
    BY <2>2, <2>3
<1>4. ASSUME NEW p \in pools, NEW q \in Ancestors(p) PROVE q \in pools /\ (q = p \/ NodeID(q) < NodeID(p))
  <2>1. q \in pools /\ IsPrefix(q.name, p.name) /\ q.name \in Name /\ p.name \in Name
    BY PoolsAreNamedWell DEF NamedWell, Ancestors
  <2>2. q.name \in Seq(Int) /\ p.name \in Seq(Int) /\ Len(q.name) \in Nat /\ Len(p.name) \in Nat
    BY <2>1, NameLengths
  <2>3. Len(q.name) <= Len(p.name) /\ Agree(q.name, p.name, Len(q.name))
    BY <2>1, <2>2, PrefixesAgree
  <2>4. CASE Len(q.name) = Len(p.name)
    BY <2>1, <2>3, <2>4, NamesDiffer, NamesTellPools
  <2>5. CASE Len(q.name) < Len(p.name)
    BY <1>2, <2>1, <2>3, <2>5 DEF Before
  <2> QED
    BY <2>2, <2>3, <2>1, <2>4, <2>5
<1>5. \A p, q \in pools : NodeID(q) = 0 => q \in Ancestors(p)
  <2> TAKE p, q \in pools
  <2> HAVE NodeID(q) = 0
  <2>1. PICK r \in pools : \A o \in pools : r \in Ancestors(o)
    BY RootIsAbove
  <2>2. r = q \/ NodeID(r) < NodeID(q)
    BY <1>4, <2>1
  <2> QED
    BY <1>3, <2>1, <2>2
<1>6. \A p \in pools : \A q \in Ancestors(p) : p.cpus \subseteq q.cpus /\ NodeID(q) <= NodeID(p)
  BY <1>3, <1>4, AncestorsContain
<1>7. \A p, q \in pools : p.cpus \cap q.cpus # {} => p \in Ancestors(q) \/ q \in Ancestors(p)
  <2> TAKE p, q \in pools
  <2> HAVE p.cpus \cap q.cpus # {}
  <2>1. PICK c : c \in p.cpus \cap q.cpus /\ c \in q.cpus \cap p.cpus
    OBVIOUS
  <2>2. Len(p.name) \in Nat /\ Len(q.name) \in Nat
    BY PoolsAreNamedWell, NameLengths DEF NamedWell
  <2>3. Len(p.name) <= Len(q.name) \/ Len(q.name) <= Len(p.name)
    BY <2>2
  <2> QED
    BY <2>1, <2>3, OverlapIsNesting
<1> QED
  BY <1>1, <1>5, <1>6, <1>7 DEF PoolsFormTree

\* ... has each CPU where it belongs.
LEMMA CpusAreFound ==
  ASSUME Built
  PROVE  CpusFindTheirPools
<1>0. machine \in Machine /\ CpusRead /\ PoolsBuilt /\ pass = "built" /\ machine.online \subseteq Cpu
      /\ pools = RootPools \cup SocketPools \cup NumaPools \cup ClusterPools
  BY CpusHaveNodes DEF Built, TreeInvariant, PoolsBuilt
<1> SUFFICES ASSUME NEW c \in machine.online
             PROVE  LET own == <<machine.package[c], machine.node[c]>>
                        holding(depth) == {p \in pools : Len(p.name) = depth /\ c \in p.cpus}
                    IN /\ {p.name : p \in holding(2)} = {own}
                       /\ machine.clusterAffinity /\ clusters # <<>> =>
                            /\ {p.cpus : p \in holding(3)} = {machine.clusterList[c]}
                            /\ \A p \in holding(3) : IsPrefix(own, p.name)
  BY DEF CpusFindTheirPools
<1> DEFINE k == machine.package[c]
           n == machine.node[c]
           own == <<k, n>>
           holding(depth) == {p \in pools : Len(p.name) = depth /\ c \in p.cpus}
<1>1. /\ c \in Cpu /\ n \in machine.numas /\ nodePackage[n] = k
      /\ cpus[c].package = k /\ cpus[c].node = n /\ n \in Int /\ k \in Int
  BY <1>0, CpusHaveNodes DEF CpusRead, Read
<1> HIDE DEF k, n
<1>2. own \in Name /\ Len(own) = 2 /\ own[1] = k /\ own[2] = n /\ own \in Seq(Int)
  BY <1>1, NumaName, NameLengths
<1>3. ASSUME NEW p \in holding(2) PROVE p.name = own
  <2>1. p \in pools /\ c \in p.cpus /\ Len(p.name) = 2 /\ p.name \in Name
    BY <1>3, PoolsAreNamedWell DEF NamedWell
  <2>2. p.name[1] = k /\ p.name[2] = n
    BY <1>1, <2>1, CpusOnTheWay
  <2>3. Agree(p.name, own, 2)
    BY <1>2, <2>2 DEF Agree
  <2> QED
    BY <1>2, <2>1, <2>3, NamesDiffer
<1>4. \E p \in holding(2) : p.name = own
  <2> DEFINE p == PoolNamed(<<nodePackage[n], n>>, NodeCpus(n))
  <2>1. p \in pools
    BY <1>0, <1>1 DEF NumaPools
  <2>2. p.name = own /\ p.cpus = NodeCpus(n)
    BY <1>1 DEF PoolNamed
  <2>3. c \in NodeCpus(n)
    BY <1>1 DEF NodeCpus, n
  <2> HIDE DEF p
  <2> QED
    BY <1>2, <2>1, <2>2, <2>3
<1>5. {p.name : p \in holding(2)} = {own}
  BY <1>3, <1>4
<1>6. ASSUME machine.clusterAffinity, clusters # <<>>
      PROVE  /\ {p.cpus : p \in holding(3)} = {machine.clusterList[c]}
             /\ \A p \in holding(3) : IsPrefix(own, p.name)
  <2>1. ClustersSound
    BY <1>6, ClustersAreSound DEF Built
  <2>2. ASSUME NEW p \in holding(3) PROVE p.cpus = machine.clusterList[c] /\ IsPrefix(own, p.name)
    <3>1. p \in pools /\ c \in p.cpus /\ Len(p.name) = 3 /\ p.name \in Name /\ NamedWell(p)
      BY <2>2, PoolsAreNamedWell DEF NamedWell
    <3>2. p.name[1] = k /\ p.name[2] = n
      BY <1>1, <3>1, CpusOnTheWay
    <3>3. p.cpus = clusters[p.name[3]].cpus /\ p.name[3] \in DOMAIN clusters
      BY <3>1 DEF NamedWell
    <3>4. p.cpus = machine.clusterList[c]
      BY <2>1, <3>1, <3>3 DEF ClustersSound
    <3>5. Len(own) <= Len(p.name) /\ Agree(own, p.name, Len(own))
      BY <1>2, <3>1, <3>2 DEF Agree
    <3> QED
      BY <1>2, <3>1, <3>4, <3>5, NameLengths, PrefixesAgree
  <2>3. \E p \in holding(3) : TRUE
    <3>1. PICK i \in DOMAIN clusters : c \in clusters[i].cpus
      BY <1>1, <1>6, <2>1 DEF ClustersSound
    <3>2. clusters[i].node = n /\ i \in Int
      BY <2>1, <3>1 DEF ClustersSound, n
    <3> DEFINE p == PoolNamed(<<nodePackage[n], n, i>>, clusters[i].cpus)
    <3>3. p \in ClusterPools
      BY <1>1, <1>6, <3>1, <3>2 DEF ClusterPools
    <3>4. p.name = <<nodePackage[n], n, i>> /\ p.cpus = clusters[i].cpus
      BY DEF PoolNamed
    <3>5. Len(p.name) = 3
      BY <3>4
    <3> HIDE DEF p
    <3> QED
      BY <1>0, <3>1, <3>3, <3>4, <3>5
  <2> QED
    BY <2>2, <2>3
<1> HIDE DEF own, holding
<1>7. /\ {p.name : p \in holding(2)} = {own}
      /\ machine.clusterAffinity /\ clusters # <<>> =>
           /\ {p.cpus : p \in holding(3)} = {machine.clusterList[c]}
           /\ \A p \in holding(3) : IsPrefix(own, p.name)
  BY <1>5, <1>6
<1> QED
  BY <1>7 DEF own, holding, k, n

\* What the policy's books take for granted of the tree that
\* buildResourcePoolsByTopology and collectNodes make, holds of every tree they
\* make, from whatever sysfs says: the numbers of the nodes are 0 to one less than
\* their count and tell them apart, node 0 is above all, a child has only CPUs of
\* its parent, and pools that share a CPU lie on one path.
THEOREM TreesAreWellFormed == Spec => []PoolsFormTree
<1>1. TreeInvariant => PoolsFormTree
  BY TreeIsBuilt DEF Built, PoolsFormTree
<1> QED
  BY <1>1, TreeInitially, TreeStep, PTL DEF Spec

\* Whatever order discoverPackages and its successors walk their maps in, every
\* online CPU of a machine that checkHWTopology accepts is in exactly one NUMA pool,
\* that of its node under the socket of its package, and with clusters in use in
\* exactly one cluster pool below it.
THEOREM CpusArePooled == Spec => []CpusFindTheirPools
<1>1. TreeInvariant => CpusFindTheirPools
  BY CpusAreFound DEF Built, CpusFindTheirPools
<1> QED
  BY <1>1, TreeInitially, TreeStep, PTL DEF Spec

--------------------------------------------------------------------------------
(***************************************************************************)
(* The DevKit collectors: the log and what is published.                   *)
(***************************************************************************)
\* The records of the two collectors are kept apart.
Shapes ==
  /\ DOMAIN pc = Collector /\ DOMAIN args = Collector
  /\ DOMAIN result = Collector /\ DOMAIN cache = Collector
  /\ DOMAIN line = Collector /\ DOMAIN logState = Collector
  /\ \A k \in Collector : DOMAIN logState[k] = {"params", "failure"}

\* The latest line and the failure remembered say the same.
LineTellsFailure(k) ==
  /\ logState[k].failure \in Errors \cup {None}
  /\ IF logState[k].failure = None THEN line[k] \notin Errors
     ELSE line[k] = logState[k].failure

\* What a round came to is remembered until it is published.
RoundIsLogged(k) ==
  pc[k] = "publish" =>
    /\ result[k].error = logState[k].failure
    /\ result[k].data = None <=> result[k].error # None

\* What is published is what was remembered until the next round begins.
EntryIsLogged(k) ==
  /\ pc[k] = "off" => cache[k] = None
  /\ pc[k] \in {"idle", "waiting"} /\ cache[k] # None =>
       (cache[k].data = None <=> logState[k].failure # None)

LogInvariant ==
  /\ Shapes
  /\ \A k \in Collector : LineTellsFailure(k) /\ RoundIsLogged(k) /\ EntryIsLogged(k)

--------------------------------------------------------------------------------
LEMMA ParseErrors ==
  ASSUME NEW k \in Collector, NEW output
  PROVE  ParseError(k, output) \in Errors \cup {None}
  BY DEF ParseError, Collector, Errors

LEMMA LogInit == DevkitInit => LogInvariant
<1> SUFFICES ASSUME DevkitInit PROVE LogInvariant
  OBVIOUS
<1>1. Shapes
  BY DEF DevkitInit, Shapes, Each, NoLog
<1>2. ASSUME NEW k \in Collector
      PROVE  /\ logState[k].failure = None /\ line[k] = "none"
             /\ pc[k] = "off" /\ cache[k] = None
  BY DEF DevkitInit, Each, NoLog
<1> QED
  BY <1>1, <1>2 DEF LogInvariant, LineTellsFailure, RoundIsLogged, EntryIsLogged, Errors

\* A step of one collector's round leaves the other one's entries alone.
LEMMA OthersKept ==
  ASSUME Shapes, NEW k \in Collector, Round(k), NEW other \in Collector, other # k
  PROVE  /\ pc'[other] = pc[other] /\ result'[other] = result[other]
         /\ cache'[other] = cache[other]
         /\ logState'[other] = logState[other] /\ line'[other] = line[other]
<1>1. StartLoop(k) \/ BeginRound(k) \/ Acquire(k) \/ Publish(k)
      \/ \E output, error : Finish(k, output, error)
  BY DEF Round, CommandFails, CommandPrints
<1> QED
  BY <1>1 DEF Shapes, StartLoop, BeginRound, Acquire, LogStart, Publish, Finish, LogFinish,
              logVars, loopVars

LEMMA ShapesKept ==
  ASSUME Shapes, NEW k \in Collector, Round(k)
  PROVE  Shapes'
<1>1. StartLoop(k) \/ BeginRound(k) \/ Acquire(k) \/ Publish(k)
      \/ \E output, error : Finish(k, output, error)
  BY DEF Round, CommandFails, CommandPrints
<1> QED
  BY <1>1 DEF Shapes, StartLoop, BeginRound, Acquire, LogStart, Publish, Finish, LogFinish,
              logVars, loopVars

\* The step of a round keeps what is said of its own collector.
LEMMA OwnRound ==
  ASSUME LogInvariant, NEW k \in Collector, Round(k)
  PROVE  (LineTellsFailure(k) /\ RoundIsLogged(k) /\ EntryIsLogged(k))'
<1>0. Shapes /\ LineTellsFailure(k) /\ RoundIsLogged(k) /\ EntryIsLogged(k)
  BY DEF LogInvariant
<1> USE DEF LineTellsFailure, RoundIsLogged, EntryIsLogged
<1>1. CASE StartLoop(k)
  BY <1>0, <1>1 DEF StartLoop, Shapes, logVars
<1>2. CASE BeginRound(k)
  BY <1>0, <1>2 DEF BeginRound, Shapes, logVars
<1>3. CASE Acquire(k)
  <2>1. pc'[k] = "running"
    BY <1>0, <1>3 DEF Acquire, Shapes
  <2>2. LineTellsFailure(k)'
    BY <1>0, <1>3 DEF Acquire, LogStart, Shapes, Errors
  <2> QED
    BY <2>1, <2>2
<1>4. ASSUME NEW output, NEW error \in Errors \cup {None}, Finish(k, output, error),
             error = None => Last(output) # None
      PROVE  (LineTellsFailure(k) /\ RoundIsLogged(k) /\ EntryIsLogged(k))'
  <2>1. /\ pc'[k] = "publish"
        /\ result'[k] = [data |-> IF error = None THEN Last(output) ELSE None, error |-> error]
        /\ logState'[k].failure = error
    BY <1>0, <1>4 DEF Finish, LogFinish, Shapes
  <2>2. LineTellsFailure(k)'
    BY <1>0, <1>4, <2>1, DevkitAssumption DEF Finish, LogFinish, Shapes, Errors
  <2> QED
    BY <1>4, <2>1, <2>2
<1>5. CASE CommandFails(k)
  BY <1>4, <1>5, DevkitAssumption DEF CommandFails, Errors
<1>6. CASE CommandPrints(k)
  <2>1. PICK output \in Outputs[k] : Finish(k, output, ParseError(k, output))
    BY <1>6 DEF CommandPrints
  <2>2. ParseError(k, output) = None => HasReport(output)
    BY DevkitAssumption DEF ParseError, Errors, Collector
  <2> QED
    BY <1>4, <2>1, <2>2, ParseErrors, DevkitAssumption
<1>7. CASE Publish(k)
  <2>1. /\ pc[k] = "publish" /\ pc'[k] = "idle"
        /\ cache'[k].data = result[k].data
        /\ UNCHANGED <<logState, line>>
    BY <1>0, <1>7 DEF Publish, SuccessEntry, FailureEntry, Shapes, logVars
  <2> QED
    BY <1>0, <2>1
<1> QED
  BY <1>1, <1>2, <1>3, <1>5, <1>6, <1>7 DEF Round

LEMMA LogStep == LogInvariant /\ [DevkitNext]_devkitVars => LogInvariant'
<1> SUFFICES ASSUME LogInvariant, [DevkitNext]_devkitVars PROVE LogInvariant'
  OBVIOUS
<1>1. CASE \E k \in Collector : Round(k)
  <2>1. PICK k \in Collector : Round(k)
    BY <1>1
  <2>2. ASSUME NEW other \in Collector, other # k
        PROVE  (LineTellsFailure(other) /\ RoundIsLogged(other) /\ EntryIsLogged(other))'
    BY <2>1, <2>2, OthersKept
       DEF LogInvariant, LineTellsFailure, RoundIsLogged, EntryIsLogged
  <2> QED
    BY <2>1, <2>2, OwnRound, ShapesKept DEF LogInvariant
<1>2. CASE Restart
  <2>1. Shapes'
    BY <1>2 DEF Restart, Shapes, Each, NoLog
  <2>2. ASSUME NEW k \in Collector
        PROVE  /\ logState'[k].failure = None /\ line'[k] = "none"
               /\ pc'[k] = "off" /\ cache'[k] = None
    BY <1>2 DEF Restart, Each, NoLog
  <2> QED
    BY <2>1, <2>2 DEF LogInvariant, LineTellsFailure, RoundIsLogged, EntryIsLogged, Errors
<1>3. CASE UNCHANGED <<loopVars, logVars>>
  BY <1>3 DEF LogInvariant, Shapes, LineTellsFailure, RoundIsLogged, EntryIsLogged,
              loopVars, logVars
<1> QED
  BY <1>1, <1>2, <1>3 DEF DevkitNext, EditConfigMap, Observe, Relist, devkitVars

\* LogTellsState: the throttled log always ends in the line that is true, for any
\* sequence of outcomes, changes of arguments and restarts (logState.start, finish).
THEOREM LogIsTrue == DevkitSpec => []LogTellsState
<1>1. LogInvariant => LogTellsState
  BY DevkitAssumption
     DEF LogInvariant, LogTellsState, LineTellsFailure, RoundIsLogged, EntryIsLogged
<1> QED
  BY LogInit, LogStep, <1>1, PTL DEF DevkitSpec

--------------------------------------------------------------------------------
\* SuccessTimeKept: no failure takes back the time of the last success
\* (storeFailure carries it over).
THEOREM SuccessIsKept == DevkitSpec => SuccessTimeKept
<1>1. ASSUME LogInvariant, [DevkitNext]_devkitVars, NEW k \in Collector,
             cache[k] # None, cache[k].succeeded, pc'[k] # "off"
      PROVE  cache'[k].succeeded
  <2>1. CASE UNCHANGED cache
    BY <1>1, <2>1
  <2>2. CASE Restart
    BY <1>1, <2>2 DEF Restart, Each
  <2>3. ASSUME NEW j \in Collector, Publish(j)
        PROVE  cache'[k].succeeded
    BY <1>1, <2>3 DEF Publish, SuccessEntry, FailureEntry, LogInvariant, Shapes
  <2> QED
    BY <1>1, <2>1, <2>2, <2>3
       DEF DevkitNext, devkitVars, loopVars, EditConfigMap, Observe, Relist, Round,
           StartLoop, BeginRound, Acquire, CommandFails, CommandPrints, Finish
<1>2. LogInvariant /\ [DevkitNext]_devkitVars
      => [\A k \in Collector :
            cache[k] # None /\ cache[k].succeeded /\ pc'[k] # "off"
            => cache'[k].succeeded]_devkitVars
  BY <1>1
<1> QED
  BY LogInit, LogStep, <1>2, PTL DEF DevkitSpec, SuccessTimeKept

--------------------------------------------------------------------------------
\* The arguments of a round, its result and the entry it published.
RoundFits ==
  /\ pc["topdown"] = "publish" /\ result["topdown"].error = None
       => ScopesEquivalent(args["topdown"].scope, result["topdown"].data.scope)
  /\ cache["topdown"] # None /\ cache["topdown"].data # None
       => ScopesEquivalent(cache["topdown"].labels.scope, cache["topdown"].data.scope)

ScopeInvariant == LogInvariant /\ RoundFits

LEMMA ScopeInit == DevkitInit => ScopeInvariant
  BY LogInit DEF ScopeInvariant, RoundFits, DevkitInit, Each, Collector

LEMMA ScopeStep == ScopeInvariant /\ [DevkitNext]_devkitVars => ScopeInvariant'
<1> SUFFICES ASSUME ScopeInvariant, [DevkitNext]_devkitVars PROVE RoundFits'
  BY LogStep DEF ScopeInvariant
<1> DEFINE t == "topdown"
<1>0. t \in Collector
  BY DEF Collector
<1>1. CASE UNCHANGED <<pc, args, result, cache>>
  BY <1>1 DEF ScopeInvariant, RoundFits
<1>2. CASE Restart
  BY <1>2 DEF Restart, Each, RoundFits, Collector
<1>3. ASSUME NEW k \in Collector, Round(k), k # t
      PROVE  RoundFits'
  <2>1. args'[t] = args[t]
    BY <1>0, <1>3 DEF Round, StartLoop, BeginRound, Acquire, CommandFails, CommandPrints, Finish,
                Publish, ScopeInvariant, LogInvariant, Shapes
  <2> QED
    BY <1>0, <1>3, <2>1, OthersKept DEF ScopeInvariant, LogInvariant, RoundFits
<1>4. CASE StartLoop(t) \/ BeginRound(t) \/ Acquire(t)
  BY <1>0, <1>4 DEF StartLoop, BeginRound, Acquire, ScopeInvariant, LogInvariant, Shapes,
                    RoundFits
<1>5. CASE CommandFails(t)
  BY <1>0, <1>5, DevkitAssumption
     DEF CommandFails, Finish, ScopeInvariant, LogInvariant, Shapes, RoundFits, Errors
<1>6. CASE CommandPrints(t)
  <2>1. PICK output \in Outputs[t] : Finish(t, output, ParseError(t, output))
    BY <1>6 DEF CommandPrints
  <2>2. ParseError(t, output) = None
        => ScopesEquivalent(args[t].scope, Last(output).scope)
    BY DevkitAssumption DEF ParseError, Errors
  <2>3. ParseError(t, output) = None => result'[t].data = Last(output)
    BY <1>0, <2>1 DEF Finish, ScopeInvariant, LogInvariant, Shapes
  <2>4. result'[t].error = ParseError(t, output) /\ UNCHANGED <<args, cache>>
    BY <1>0, <2>1 DEF Finish, ScopeInvariant, LogInvariant, Shapes
  <2> QED
    BY <2>2, <2>3, <2>4 DEF ScopeInvariant, RoundFits
<1>7. CASE Publish(t)
  <2>1. pc'[t] = "idle" /\ pc[t] = "publish"
    BY <1>0, <1>7 DEF Publish, ScopeInvariant, LogInvariant, Shapes
  <2>2. cache'[t].data # None
        => /\ result[t].error = None /\ cache'[t].data = result[t].data
           /\ cache'[t].labels.scope = args[t].scope
    BY <1>0, <1>7
       DEF Publish, SuccessEntry, FailureEntry, Attempt, ScopeInvariant, LogInvariant, Shapes
  <2> QED
    BY <2>1, <2>2 DEF ScopeInvariant, RoundFits
<1> QED
  BY <1>1, <1>2, <1>3, <1>4, <1>5, <1>6, <1>7
     DEF DevkitNext, devkitVars, loopVars, EditConfigMap, Observe, Relist, Round

--------------------------------------------------------------------------------
(***************************************************************************)
(* The rows of a tree.                                                       *)
(***************************************************************************)
Node == [path : Seq(STRING), level : Nat, value : Int]
Tree == [stack : Seq(STRING), nodes : Seq(Node), ok : BOOLEAN]

LEMMA RowAdded ==
  ASSUME NEW tree \in Tree, NEW row \in TreeRow
  PROVE  AddRow(tree, row) \in Tree
<1> DEFINE path == Append(SubSeq(tree.stack, 1, row.level - 1), row.name)
           node == [path |-> path, level |-> row.level, value |-> row.value]
<1>1. CASE ~tree.ok \/ Len(tree.stack) < row.level - 1 \/ path \in PathsOf(tree.nodes)
  BY <1>1 DEF AddRow, Tree
<1>2. CASE ~(~tree.ok \/ Len(tree.stack) < row.level - 1 \/ path \in PathsOf(tree.nodes))
  <2>1. tree.stack \in Seq(STRING) /\ row.level - 1 \in Nat /\ row.level - 1 <= Len(tree.stack)
    BY <1>2 DEF Tree, TreeRow
  <2>2. SubSeq(tree.stack, 1, row.level - 1) \in Seq(STRING)
    BY <2>1
  <2>3. path \in Seq(STRING)
    BY <2>2 DEF TreeRow
  <2>4. node \in Node
    BY <2>3 DEF Node, TreeRow
  <2>5. AddRow(tree, row) = [stack |-> path, ok |-> TRUE, nodes |-> Append(tree.nodes, node)]
    BY <1>2 DEF AddRow
  <2> HIDE DEF path, node
  <2> QED
    BY <2>3, <2>4, <2>5 DEF Tree
<1> QED
  BY <1>1, <1>2

\* ParsedTree, unfolded.
IsParse(it, rows) ==
  it = [s \in SUBSET DOMAIN rows |->
          IF s = {} THEN EmptyTree ELSE AddRow(it[s \ {Max(s)}], rows[Max(s)])]

LEMMA ParseIsChosen ==
  ASSUME NEW rows
  PROVE  ParsedTree(rows) = (CHOOSE it : IsParse(it, rows))[DOMAIN rows]
  BY Zenon DEF ParsedTree, FoldLeft, MapThenFoldSet, IsParse

LEMMA ParseSteps ==
  ASSUME NEW rows \in Seq(TreeRow)
  PROVE  \E trees : /\ trees[0] = EmptyTree
                    /\ \A i \in 1..Len(rows) : trees[i] = AddRow(trees[i - 1], rows[i])
                    /\ \A i \in 0..Len(rows) : trees[i] \in Tree
                    /\ ParsedTree(rows) = trees[Len(rows)]
<1> DEFINE n == Len(rows)
           D == 1..n
           g == [ai \in Tree \X D |-> AddRow(ai[1], rows[ai[2]])]
<1>1. n \in Nat /\ DOMAIN rows = D /\ \A i \in D : rows[i] \in TreeRow
  OBVIOUS
<1>2. D \in SUBSET Nat /\ IsFiniteSet(D)
  BY <1>1, FS_Interval
<1>3. g \in [Tree \X D -> Tree]
  <2>1. \A ai \in Tree \X D : ai[1] \in Tree /\ ai[2] \in D
    OBVIOUS
  <2> QED
    BY <1>1, <2>1, RowAdded
<1>4. EmptyTree \in Tree
  <2>1. <<>> \in Seq(STRING) /\ <<>> \in Seq(Node)
    OBVIOUS
  <2> QED
    BY <2>1 DEF EmptyTree, Tree
<1>5. \A a \in Tree, i \in D : g[<<a, i>>] = AddRow(a, rows[i])
  OBVIOUS
<1> HIDE DEF g, D
<1>6. PICK it : IsFoldOf(it, g, EmptyTree, D)
  BY <1>2, FoldExists
<1>7. \A s \in SUBSET D : it[s] \in Tree
  BY <1>2, <1>3, <1>4, <1>6, FoldStays
<1>8. IsParse(it, rows)
  <2>1. it = [s \in SUBSET D |-> IF s = {} THEN EmptyTree ELSE g[<<it[s \ {Max(s)}], Max(s)>>]]
    BY <1>6 DEF IsFoldOf
  <2>2. \A s \in SUBSET D : s # {} => Max(s) \in D /\ s \ {Max(s)} \in SUBSET D
    BY <1>2, FS_Subset, MaxIsIn
  <2>3. \A s \in SUBSET D : s # {} => g[<<it[s \ {Max(s)}], Max(s)>>] = AddRow(it[s \ {Max(s)}], rows[Max(s)])
    BY <1>5, <1>7, <2>2
  <2> QED
    BY <1>1, <2>1, <2>3 DEF IsParse
<1> DEFINE c == CHOOSE c : IsParse(c, rows)
           T == Tree \cup {c[s] : s \in SUBSET D}
           h == [ai \in T \X D |-> AddRow(ai[1], rows[ai[2]])]
<1>9. IsParse(c, rows)
  BY <1>8
<1>10. \A a \in T, i \in D : h[<<a, i>>] = AddRow(a, rows[i])
  OBVIOUS
<1>11. \A s \in SUBSET D : c[s] \in T /\ it[s] \in T
  BY <1>7
<1> HIDE DEF h, T, c
<1>12. ASSUME NEW f, IsParse(f, rows), \A s \in SUBSET D : f[s] \in T
       PROVE  IsFoldOf(f, h, EmptyTree, D)
  <2>1. f = [s \in SUBSET D |-> IF s = {} THEN EmptyTree ELSE AddRow(f[s \ {Max(s)}], rows[Max(s)])]
    BY <1>1, <1>12 DEF IsParse
  <2>2. \A s \in SUBSET D : s # {} => Max(s) \in D /\ s \ {Max(s)} \in SUBSET D
    BY <1>2, FS_Subset, MaxIsIn
  <2>3. \A s \in SUBSET D : s # {} => h[<<f[s \ {Max(s)}], Max(s)>>] = AddRow(f[s \ {Max(s)}], rows[Max(s)])
    BY <1>10, <1>12, <2>2
  <2> QED
    BY <1>2, <2>1, <2>3 DEF IsFoldOf
<1>13. ParsedTree(rows) = it[D]
  <2>1. ParsedTree(rows) = c[D]
    BY <1>1, ParseIsChosen DEF c
  <2>2. IsFoldOf(c, h, EmptyTree, D) /\ IsFoldOf(it, h, EmptyTree, D)
    BY <1>8, <1>9, <1>11, <1>12
  <2>3. D \subseteq D
    OBVIOUS
  <2>4. c[D] = it[D]
    BY <2>2, <2>3, FoldsAgree
  <2> QED
    BY <2>1, <2>4
<1> DEFINE trees == [i \in 0..n |-> it[1..i]]
<1>14. Accumulates(trees, g, EmptyTree, n)
  BY <1>1, <1>6, Accumulation DEF D
<1>15. \A i \in 0..n : trees[i] \in Tree
  <2>1. \A i \in 0..n : 1..i \in SUBSET D
    BY <1>1 DEF D
  <2> QED
    BY <1>7, <2>1
<1>16. \A i \in 1..n : trees[i] = AddRow(trees[i - 1], rows[i])
  <2> TAKE i \in 1..n
  <2>1. i - 1 \in 0..n /\ i \in D
    BY <1>1 DEF D
  <2> HIDE DEF trees
  <2> QED
    BY <1>5, <1>14, <1>15, <2>1 DEF Accumulates
<1>17. trees[0] = EmptyTree /\ trees[n] = it[D]
  <2>1. n \in 0..n
    BY <1>1
  <2> QED
    BY <1>14, <2>1 DEF Accumulates, D
<1> HIDE DEF trees, n
<1> QED
  BY <1>13, <1>15, <1>16, <1>17 DEF n

\* The stack, cut back to what is above level l, and the name of the row.
LEMMA StackCut ==
  ASSUME NEW S, NEW stack \in Seq(S), NEW l \in Nat \ {0}, l - 1 <= Len(stack), NEW name \in S
  PROVE  LET path == Append(SubSeq(stack, 1, l - 1), name)
         IN  /\ path \in Seq(S) /\ Len(path) = l
             /\ SubSeq(path, 1, l) = path
             /\ \A d \in 1..(l - 1) : SubSeq(path, 1, d) = SubSeq(stack, 1, d)
<1> DEFINE above == SubSeq(stack, 1, l - 1)
           path == Append(above, name)
<1>1. /\ above \in Seq(S) /\ Len(above) = l - 1
      /\ \A i \in 1..(l - 1) : above[i] = stack[i]
  OBVIOUS
<1> HIDE DEF above
<1>2. /\ path \in Seq(S) /\ Len(path) = l
      /\ \A i \in 1..(l - 1) : path[i] = stack[i]
  <2>1. path \in Seq(S)
    BY <1>1
  <2>2. Len(path) = Len(above) + 1 /\ \A i \in 1..Len(above) : path[i] = above[i]
    BY <1>1
  <2> HIDE DEF path
  <2> QED
    BY <1>1, <2>1, <2>2
<1> HIDE DEF path
<1>3. SubSeq(path, 1, l) = path
  BY <1>2
<1>4. ASSUME NEW d \in 1..(l - 1)
      PROVE  SubSeq(path, 1, d) = SubSeq(stack, 1, d)
  <2>1. /\ SubSeq(path, 1, d) \in Seq(S) /\ Len(SubSeq(path, 1, d)) = d
        /\ \A i \in 1..d : SubSeq(path, 1, d)[i] = path[i]
    BY <1>2
  <2>2. /\ SubSeq(stack, 1, d) \in Seq(S) /\ Len(SubSeq(stack, 1, d)) = d
        /\ \A i \in 1..d : SubSeq(stack, 1, d)[i] = stack[i]
    OBVIOUS
  <2>3. \A i \in 1..d : path[i] = stack[i]
    BY <1>2
  <2> QED
    BY <2>1, <2>2, <2>3
<1> QED
  BY <1>2, <1>3, <1>4 DEF path, above

\* Row j is the nearest above row i that is one level higher.
IsParent(rows, j, i) ==
  /\ j \in 1..i-1
  /\ rows[j].level = rows[i].level - 1
  /\ \A l \in j+1..i-1 : rows[l].level # rows[j].level

Filed(rows, nodes, i) ==
  \/ rows[i].level = 1 /\ nodes[i].path = <<rows[i].name>>
  \/ /\ rows[i].level # 1
     /\ \E j \in 1..i-1 :
          IsParent(rows, j, i) /\ nodes[i].path = Append(nodes[j].path, rows[i].name)

\* After i rows: each of them is filed, no two at the same place, and every beginning of
\* the stack is the path of a row since which only deeper ones have come.
Sound(rows, tree, i) ==
  /\ Len(tree.nodes) = i
  /\ \A j, k \in 1..i : tree.nodes[j].path = tree.nodes[k].path => j = k
  /\ \A k \in 1..i : Filed(rows, tree.nodes, k)
  /\ \A d \in 1..Len(tree.stack) :
       \E j \in 1..i : /\ rows[j].level = d
                       /\ tree.nodes[j].path = SubSeq(tree.stack, 1, d)
                       /\ \A l \in j+1..i : rows[l].level > d

LEMMA RowFiled ==
  ASSUME NEW rows \in Seq(TreeRow), NEW i \in 1..Len(rows), NEW old \in Tree,
         Sound(rows, old, i - 1), AddRow(old, rows[i]).ok
  PROVE  Sound(rows, AddRow(old, rows[i]), i) /\ old.ok
<1> DEFINE row == rows[i]
           l == row.level
           path == Append(SubSeq(old.stack, 1, l - 1), row.name)
           node == [path |-> path, level |-> l, value |-> row.value]
           new == AddRow(old, row)
<1>1. /\ i \in Nat /\ i > 0 /\ i - 1 \in Nat
      /\ \A k \in 1..i : rows[k].level \in Nat \ {0}
      /\ row.name \in STRING /\ l \in Nat \ {0}
  <2>1. Len(rows) \in Nat /\ \A k \in 1..Len(rows) : rows[k] \in TreeRow
    OBVIOUS
  <2>2. \A k \in 1..Len(rows) : rows[k].level \in Nat \ {0} /\ rows[k].name \in STRING
    BY <2>1 DEF TreeRow
  <2>3. i \in Nat /\ i > 0 /\ i - 1 \in Nat /\ \A k \in 1..i : k \in 1..Len(rows)
    BY <2>1
  <2> QED
    BY <2>2, <2>3
<1>2. old.stack \in Seq(STRING) /\ old.nodes \in Seq(Node) /\ Len(old.stack) \in Nat
  BY DEF Tree
<1>3. ~(~old.ok \/ Len(old.stack) < l - 1 \/ path \in PathsOf(old.nodes))
  <2>1. (~old.ok \/ Len(old.stack) < l - 1 \/ path \in PathsOf(old.nodes))
        => new = [old EXCEPT !.ok = FALSE]
    BY DEF AddRow
  <2>2. ~[old EXCEPT !.ok = FALSE].ok
    BY DEF Tree
  <2> HIDE DEF path, l, new
  <2> QED
    BY <2>1, <2>2 DEF new
<1>4. new = [stack |-> path, ok |-> TRUE, nodes |-> Append(old.nodes, node)]
  BY <1>3 DEF AddRow
<1>5. l - 1 <= Len(old.stack)
  BY <1>1, <1>2, <1>3
<1>6. /\ path \in Seq(STRING) /\ Len(path) = l /\ SubSeq(path, 1, l) = path
      /\ \A d \in 1..(l - 1) : SubSeq(path, 1, d) = SubSeq(old.stack, 1, d)
  <2> DEFINE S == STRING
             stack == old.stack
             name == row.name
  <2>1. stack \in Seq(S) /\ name \in S
    BY <1>1, <1>2
  <2>2. l \in Nat \ {0} /\ l - 1 <= Len(stack)
    BY <1>1, <1>5
  <2> HIDE DEF S, l, stack, name
  <2>3. LET p == Append(SubSeq(stack, 1, l - 1), name)
        IN  /\ p \in Seq(S) /\ Len(p) = l /\ SubSeq(p, 1, l) = p
            /\ \A d \in 1..(l - 1) : SubSeq(p, 1, d) = SubSeq(stack, 1, d)
    BY <2>1, <2>2, StackCut
  <2> QED
    BY <2>3 DEF S, stack, name
<1>7. node.path = path
  OBVIOUS
<1>8. l = 1 => path = <<row.name>>
  <2>1. SubSeq(old.stack, 1, 0) = <<>>
    BY <1>2
  <2>2. Append(<<>>, row.name) = <<row.name>>
    OBVIOUS
  <2>3. l = 1 => l - 1 = 0
    OBVIOUS
  <2> HIDE DEF l, row
  <2> QED
    BY <2>1, <2>2, <2>3
<1> HIDE DEF path, node
<1>9. /\ Len(new.nodes) = i /\ new.nodes[i].path = path
      /\ \A k \in 1..(i - 1) : new.nodes[k] = old.nodes[k]
  <2>1. Len(old.nodes) = i - 1
    BY DEF Sound
  <2>2. new.nodes = Append(old.nodes, node)
    BY <1>4
  <2>3. Len(Append(old.nodes, node)) = i /\ Append(old.nodes, node)[i] = node
        /\ \A k \in 1..(i - 1) : Append(old.nodes, node)[k] = old.nodes[k]
    BY <1>1, <1>2, <2>1
  <2> HIDE DEF new
  <2> QED
    BY <1>7, <2>2, <2>3
<1>10. new.stack = path
  BY <1>4
<1> HIDE DEF new
<1>11. ASSUME NEW k \in 1..i PROVE Filed(rows, new.nodes, k)
  <2>1. CASE k < i
    <3>1. Filed(rows, old.nodes, k) /\ new.nodes[k] = old.nodes[k]
      BY <1>1, <1>9, <2>1 DEF Sound
    <3>2. \A j \in 1..(k - 1) : new.nodes[j] = old.nodes[j]
      BY <1>1, <1>9, <2>1
    <3> QED
      BY <3>1, <3>2 DEF Filed
  <2>2. CASE k = i /\ l = 1
    BY <1>8, <1>9, <2>2 DEF Filed
  <2>3. CASE k = i /\ l # 1
    <3>1. l - 1 \in 1..Len(old.stack)
      <4> HIDE DEF l
      <4> QED
        BY <1>1, <1>2, <1>5, <2>3
    <3>2. PICK j \in 1..(i - 1) : /\ rows[j].level = l - 1
                                  /\ old.nodes[j].path = SubSeq(old.stack, 1, l - 1)
                                  /\ \A m \in j+1..(i - 1) : rows[m].level > l - 1
      BY <3>1 DEF Sound
    <3>3. IsParent(rows, j, i)
      <4>1. \A m \in j+1..(i - 1) : rows[m].level \in Nat /\ rows[m].level > l - 1
        BY <1>1, <3>2
      <4> QED
        BY <1>1, <3>2, <4>1 DEF IsParent
    <3>4. path = Append(new.nodes[j].path, row.name)
      BY <1>9, <3>2 DEF path
    <3> QED
      BY <1>9, <2>3, <3>2, <3>3, <3>4 DEF Filed
  <2> QED
    BY <1>1, <2>1, <2>2, <2>3
<1>12. ASSUME NEW d \in 1..Len(new.stack)
       PROVE  \E j \in 1..i : /\ rows[j].level = d
                              /\ new.nodes[j].path = SubSeq(new.stack, 1, d)
                              /\ \A m \in j+1..i : rows[m].level > d
  <2>1. d \in 1..l
    BY <1>6, <1>10
  <2>2. CASE d = l
    <3>1. i \in 1..i /\ \A m \in i+1..i : rows[m].level > d
      BY <1>1
    <3>2. rows[i].level = d /\ new.nodes[i].path = SubSeq(new.stack, 1, d)
      BY <1>6, <1>9, <1>10, <2>2
    <3> QED
      BY <3>1, <3>2
  <2>3. CASE d < l
    <3>1. d \in 1..(l - 1) /\ d \in 1..Len(old.stack)
      BY <1>1, <1>2, <1>5, <2>1, <2>3
    <3>2. PICK j \in 1..(i - 1) : /\ rows[j].level = d
                                  /\ old.nodes[j].path = SubSeq(old.stack, 1, d)
                                  /\ \A m \in j+1..(i - 1) : rows[m].level > d
      BY <3>1 DEF Sound
    <3>3. new.nodes[j].path = SubSeq(new.stack, 1, d)
      BY <1>6, <1>9, <1>10, <3>1, <3>2
    <3>4. \A m \in j+1..i : rows[m].level > d
      BY <1>1, <2>3, <3>2
    <3> QED
      BY <1>1, <3>2, <3>3, <3>4
  <2> QED
    BY <1>1, <2>1, <2>2, <2>3
<1>13. old.ok
  BY <1>3
<1>14. ASSUME NEW j \in 1..i, NEW k \in 1..i, new.nodes[j].path = new.nodes[k].path
       PROVE  j = k
  <2>1. \A m \in 1..(i - 1) : new.nodes[m].path # path
    <3>1. DOMAIN old.nodes = 1..(i - 1)
      BY <1>1, <1>2 DEF Sound
    <3>2. path \notin {old.nodes[m].path : m \in DOMAIN old.nodes}
      BY <1>3 DEF PathsOf
    <3> QED
      BY <1>9, <3>1, <3>2
  <2>2. \A m \in 1..i : m = i \/ m \in 1..(i - 1)
    BY <1>1
  <2>3. CASE j \in 1..(i - 1) /\ k \in 1..(i - 1)
    <3>1. old.nodes[j].path = old.nodes[k].path
      BY <1>9, <1>14, <2>3
    <3> QED
      BY <2>3, <3>1 DEF Sound
  <2> QED
    BY <1>9, <1>14, <2>1, <2>2, <2>3
<1> QED
  BY <1>9, <1>11, <1>12, <1>13, <1>14 DEF Sound, new

\* A tree that is accepted is sound, by induction over its rows.
LEMMA ParseIsSound ==
  ASSUME NEW rows \in Seq(TreeRow), ParsedTree(rows).ok
  PROVE  /\ ParsedTree(rows) \in Tree
         /\ Sound(rows, ParsedTree(rows), Len(rows))
<1> DEFINE n == Len(rows)
<1>1. PICK trees : /\ trees[0] = EmptyTree
                   /\ \A i \in 1..n : trees[i] = AddRow(trees[i - 1], rows[i])
                   /\ \A i \in 0..n : trees[i] \in Tree
                   /\ ParsedTree(rows) = trees[n]
  BY ParseSteps
<1>2. n \in Nat
  OBVIOUS
<1> DEFINE P == {i \in 0..n : trees[i].ok => Sound(rows, trees[i], i)}
<1>3. 0 \in P
  <2>1. Sound(rows, EmptyTree, 0)
    BY DEF Sound, EmptyTree
  <2> QED
    BY <1>1, <1>2, <2>1
<1>4. ASSUME NEW i \in 0..(n - 1), i \in P PROVE i + 1 \in P
  <2> DEFINE k == i + 1
  <2>1. k \in 1..n /\ k - 1 = i /\ i \in 0..n /\ k \in 0..n
    BY <1>2
  <2> HIDE DEF k
  <2>2. trees[k] = AddRow(trees[i], rows[k]) /\ trees[i] \in Tree
    BY <1>1, <2>1
  <2>3. ASSUME trees[k].ok PROVE Sound(rows, trees[k], k)
    <3>1. trees[i].ok
      <4>1. ~trees[i].ok => trees[k] = [trees[i] EXCEPT !.ok = FALSE]
        BY <2>2 DEF AddRow
      <4>2. ~[trees[i] EXCEPT !.ok = FALSE].ok
        BY <2>2 DEF Tree
      <4> QED
        BY <2>3, <4>1, <4>2
    <3>2. Sound(rows, trees[i], k - 1)
      BY <1>4, <2>1, <3>1
    <3> QED
      BY <2>1, <2>2, <2>3, <3>2, RowFiled
  <2> QED
    BY <2>1, <2>3 DEF k
<1> HIDE DEF n, P
<1>5. n \in 0..n /\ n \in P
  <2>1. n \in 0..n
    BY <1>2
  <2> QED
    BY <1>2, <1>3, <1>4, <2>1, InductionTo
<1> QED
  BY <1>1, <1>5 DEF P, n

\* A row has one parent at most.
LEMMA ParentIsOne ==
  ASSUME NEW rows \in Seq(TreeRow), NEW i \in 1..Len(rows), NEW j, NEW k,
         IsParent(rows, j, i), IsParent(rows, k, i)
  PROVE  j = k
<1>1. j \in 1..i-1 /\ k \in 1..i-1 /\ i \in Int /\ rows[j].level = rows[k].level
  BY DEF IsParent
<1>2. j < k => k \in j+1..i-1
  BY <1>1
<1>3. k < j => j \in k+1..i-1
  BY <1>1
<1>4. ~(j < k) /\ ~(k < j)
  BY <1>1, <1>2, <1>3 DEF IsParent
<1> QED
  BY <1>1, <1>4

LEMMA TreeIsFiled ==
  ASSUME NEW rows \in Seq(TreeRow), ParsedTree(rows).ok
  PROVE  LET nodes == ParsedTree(rows).nodes
             Parent(i) == CHOOSE j \in 1..i-1 :
                            /\ rows[j].level = rows[i].level - 1
                            /\ \A l \in j+1..i-1 : rows[l].level # rows[j].level
         IN  \A i \in DOMAIN rows :
               nodes[i].path = IF rows[i].level = 1 THEN <<rows[i].name>>
                               ELSE Append(nodes[Parent(i)].path, rows[i].name)
<1> DEFINE nodes == ParsedTree(rows).nodes
           Parent(i) == CHOOSE j \in 1..i-1 :
                          /\ rows[j].level = rows[i].level - 1
                          /\ \A l \in j+1..i-1 : rows[l].level # rows[j].level
<1> SUFFICES ASSUME NEW i \in DOMAIN rows
             PROVE  nodes[i].path = IF rows[i].level = 1 THEN <<rows[i].name>>
                                    ELSE Append(nodes[Parent(i)].path, rows[i].name)
  OBVIOUS
<1>1. i \in 1..Len(rows) /\ Filed(rows, nodes, i)
  BY ParseIsSound DEF Sound
<1>2. CASE rows[i].level = 1
  BY <1>1, <1>2 DEF Filed
<1>3. CASE rows[i].level # 1
  <2>1. PICK j \in 1..i-1 : IsParent(rows, j, i) /\ nodes[i].path = Append(nodes[j].path, rows[i].name)
    BY <1>1, <1>3 DEF Filed
  <2>2. IsParent(rows, Parent(i), i)
    BY <2>1 DEF IsParent
  <2> HIDE DEF Parent, nodes
  <2>3. Parent(i) = j
    BY <1>1, <2>1, <2>2, ParentIsOne
  <2> QED
    BY <1>3, <2>1, <2>3
<1> QED
  BY <1>2, <1>3

--------------------------------------------------------------------------------
(***************************************************************************)
(* The metrics of a scrape.                                                  *)
(***************************************************************************)
\* The metrics s are told apart, and have the names N.
Gathered(s, N) ==
  /\ s \in Seq({s[i] : i \in DOMAIN s})
  /\ IsInjective(s)
  /\ \A i \in DOMAIN s : s[i][1] \in N

LEMMA NamedIsGathered ==
  ASSUME NEW U, NEW keys \in Seq(U), IsInjective(keys), NEW name
  PROVE  Gathered(Named(name, keys), {name})
<1> DEFINE s == Named(name, keys)
           n == Len(keys)
<1>1. n \in Nat /\ DOMAIN keys = 1..n
  OBVIOUS
<1>2. s = [i \in 1..n |-> <<name, keys[i]>>]
  BY <1>1 DEF Named
<1>3. DOMAIN s = 1..n /\ \A i \in 1..n : s[i] = <<name, keys[i]>>
  BY <1>2
<1> HIDE DEF s, n
<1>4. \A i \in 1..n : s[i] \in {s[j] : j \in DOMAIN s}
  BY <1>3
<1>5. s \in Seq({s[j] : j \in DOMAIN s})
  BY <1>1, <1>2, <1>4
<1>6. IsInjective(s)
  BY <1>1, <1>3 DEF IsInjective
<1>7. \A i \in DOMAIN s : s[i][1] \in {name}
  BY <1>3
<1> QED
  BY <1>5, <1>6, <1>7 DEF Gathered, s

LEMMA GatheredTogether ==
  ASSUME NEW s, NEW t, NEW M, NEW N, Gathered(s, M), Gathered(t, N), M \cap N = {}
  PROVE  Gathered(s \o t, M \cup N)
<1> DEFINE U == {s[i] : i \in DOMAIN s} \cup {t[i] : i \in DOMAIN t}
           m == Len(s)
           n == Len(t)
           st == s \o t
<1>1. s \in Seq(U) /\ t \in Seq(U)
  <2>1. s \in Seq({s[i] : i \in DOMAIN s}) /\ t \in Seq({t[i] : i \in DOMAIN t})
    BY DEF Gathered
  <2> QED
    BY <2>1
<1> HIDE DEF U
<1>2. m \in Nat /\ n \in Nat /\ DOMAIN s = 1..m /\ DOMAIN t = 1..n
  BY <1>1
<1>3. /\ st \in Seq(U) /\ Len(st) = m + n
      /\ \A i \in 1..(m + n) : st[i] = IF i <= m THEN s[i] ELSE t[i - m]
  BY <1>1
<1> HIDE DEF m, n, st
<1>4. DOMAIN st = 1..(m + n)
  BY <1>3
<1>5. ASSUME NEW i \in DOMAIN st
      PROVE  \/ i \in DOMAIN s /\ st[i] = s[i] /\ st[i][1] \in M
             \/ i - m \in DOMAIN t /\ st[i] = t[i - m] /\ st[i][1] \in N
  <2>1. CASE i <= m
    <3>1. i \in DOMAIN s /\ st[i] = s[i]
      BY <1>2, <1>3, <1>4, <2>1
    <3> QED
      BY <3>1 DEF Gathered
  <2>2. CASE i > m
    <3>1. i - m \in DOMAIN t /\ st[i] = t[i - m]
      BY <1>2, <1>3, <1>4, <2>2
    <3> QED
      BY <3>1 DEF Gathered
  <2> QED
    BY <1>2, <1>4, <2>1, <2>2
<1>6. ASSUME NEW i \in DOMAIN st, NEW j \in DOMAIN st, st[i] = st[j] PROVE i = j
  <2>1. CASE i \in DOMAIN s /\ st[i] = s[i] /\ j \in DOMAIN s /\ st[j] = s[j]
    BY <1>6, <2>1 DEF Gathered, IsInjective
  <2>2. CASE i - m \in DOMAIN t /\ st[i] = t[i - m] /\ j - m \in DOMAIN t /\ st[j] = t[j - m]
    <3>1. i - m = j - m
      BY <1>6, <2>2 DEF Gathered, IsInjective
    <3> QED
      BY <1>2, <1>4, <3>1
  <2> QED
    BY <1>5, <1>6, <2>1, <2>2
<1>7. \A i \in 1..(m + n) : st[i] \in {st[j] : j \in DOMAIN st}
  BY <1>4
<1>8. st \in Seq({st[j] : j \in DOMAIN st})
  BY <1>3, <1>7
<1> QED
  BY <1>5, <1>6, <1>8 DEF Gathered, IsInjective, st

Cell == [key : STRING \X STRING, shown : SUBSET {"bandwidth", "hit"}]
Parts == {"bandwidth", "hit"}

CellsOfRow(row, labels) ==
  [c \in DOMAIN labels |-> [key |-> <<row.key, labels[c]>>, shown |-> row.cells[c]]]

LEMMA RowsGiveCells ==
  ASSUME NEW labels \in Seq(STRING), NEW row \in [key : STRING, cells : Seq(SUBSET Parts)],
         Len(row.cells) = Len(labels)
  PROVE  CellsOfRow(row, labels) \in Seq(Cell)
<1> DEFINE n == Len(labels)
<1>1. n \in Nat /\ DOMAIN labels = 1..n
  OBVIOUS
<1>2. ASSUME NEW c \in 1..n
      PROVE  [key |-> <<row.key, labels[c]>>, shown |-> row.cells[c]] \in Cell
  <2>1. row.cells \in Seq(SUBSET Parts) /\ Len(row.cells) = n /\ row.key \in STRING
    OBVIOUS
  <2>2. row.cells[c] \in SUBSET Parts
    BY <1>1, <2>1
  <2>3. labels[c] \in STRING
    BY <1>1
  <2> QED
    BY <2>1, <2>2, <2>3 DEF Cell, Parts
<1> HIDE DEF n
<1> QED
  BY <1>1, <1>2 DEF CellsOfRow

\* CellsOf, unfolded.
IsCells(it, rows, labels) ==
  it = [s \in SUBSET DOMAIN rows |->
          IF s = {} THEN <<>> ELSE it[s \ {Max(s)}] \o CellsOfRow(rows[Max(s)], labels)]

LEMMA CellsAreChosen ==
  ASSUME NEW rows, NEW labels
  PROVE  CellsOf(rows, labels) = (CHOOSE it : IsCells(it, rows, labels))[DOMAIN rows]
  BY Zenon DEF CellsOf, FoldLeft, MapThenFoldSet, IsCells, CellsOfRow

LEMMA CellsAreCells ==
  ASSUME NEW labels \in Seq(STRING), NEW rows \in Seq([key : STRING, cells : Seq(SUBSET Parts)]),
         \A r \in DOMAIN rows : Len(rows[r].cells) = Len(labels)
  PROVE  CellsOf(rows, labels) \in Seq(Cell)
<1> DEFINE D == DOMAIN rows
           more(i) == CellsOfRow(rows[i], labels)
           g == [ai \in Seq(Cell) \X D |-> ai[1] \o more(ai[2])]
<1>1. D \in SUBSET Nat /\ IsFiniteSet(D)
  <2>1. D = 1..Len(rows) /\ Len(rows) \in Nat
    OBVIOUS
  <2> QED
    BY <2>1, FS_Interval
<1>2. \A i \in D : more(i) \in Seq(Cell)
  <2> TAKE i \in D
  <2> DEFINE R == [key : STRING, cells : Seq(SUBSET Parts)]
  <2>0. rows \in Seq(R)
    OBVIOUS
  <2> HIDE DEF R
  <2>1. rows[i] \in R /\ Len(rows[i].cells) = Len(labels)
    BY <2>0
  <2> USE DEF R
  <2> QED
    BY <2>1, RowsGiveCells
<1> HIDE DEF more, D
<1>3. g \in [Seq(Cell) \X D -> Seq(Cell)]
  <2>1. \A ai \in Seq(Cell) \X D : ai[1] \in Seq(Cell) /\ ai[2] \in D
    OBVIOUS
  <2> QED
    BY <1>2, <2>1
<1>4. <<>> \in Seq(Cell)
  OBVIOUS
<1>5. \A a \in Seq(Cell), i \in D : g[<<a, i>>] = a \o more(i)
  OBVIOUS
<1> HIDE DEF g
<1>6. PICK it : IsFoldOf(it, g, <<>>, D)
  BY <1>1, FoldExists
<1>7. \A s \in SUBSET D : it[s] \in Seq(Cell)
  BY <1>1, <1>3, <1>4, <1>6, FoldStays
<1>8. \A s \in SUBSET D : s # {} => Max(s) \in D /\ s \ {Max(s)} \in SUBSET D
  BY <1>1, FS_Subset, MaxIsIn
<1>9. IsCells(it, rows, labels)
  <2>1. it = [s \in SUBSET D |-> IF s = {} THEN <<>> ELSE g[<<it[s \ {Max(s)}], Max(s)>>]]
    BY <1>6 DEF IsFoldOf
  <2>2. \A s \in SUBSET D : s # {} => g[<<it[s \ {Max(s)}], Max(s)>>] = it[s \ {Max(s)}] \o more(Max(s))
    BY <1>5, <1>7, <1>8
  <2> QED
    BY <2>1, <2>2 DEF IsCells, more, D
<1> DEFINE f == CHOOSE f : IsCells(f, rows, labels)
<1>10. IsCells(f, rows, labels)
  BY <1>9
<1> HIDE DEF f
<1>11. f = [s \in SUBSET D |-> IF s = {} THEN <<>> ELSE f[s \ {Max(s)}] \o more(Max(s))]
  BY <1>10 DEF IsCells, more, D
<1> DEFINE Bad == {s \in SUBSET D : f[s] \notin Seq(Cell)}
<1>12. Bad = {}
  <2> SUFFICES ASSUME Bad # {} PROVE FALSE
    OBVIOUS
  <2>1. Bad \in SUBSET (SUBSET D)
    OBVIOUS
  <2>2. PICK s \in Bad : \A t \in SUBSET s : t # s => t \notin Bad
    <3> HIDE DEF Bad
    <3> QED
      BY <1>1, <2>1, SmallestSet
  <2>3. s # {}
    BY <1>11, <2>2
  <2>4. Max(s) \in s /\ Max(s) \in D /\ s \ {Max(s)} \in SUBSET D
    BY <1>1, <2>2, <2>3, FS_Subset, MaxIsIn
  <2>5. f[s \ {Max(s)}] \in Seq(Cell)
    BY <2>2, <2>4
  <2>6. f[s] = f[s \ {Max(s)}] \o more(Max(s))
    BY <1>11, <2>2, <2>3
  <2> QED
    <3>1. \A a, b \in Seq(Cell) : a \o b \in Seq(Cell)
      OBVIOUS
    <3>2. more(Max(s)) \in Seq(Cell)
      BY <1>2, <2>4
    <3>3. f[s] \in Seq(Cell)
      BY <2>5, <2>6, <3>1, <3>2
    <3> QED
      BY <2>2, <3>3
<1>13. D \in SUBSET D
  OBVIOUS
<1>14. f[D] \in Seq(Cell)
  BY <1>12, <1>13
<1> QED
  BY <1>14, CellsAreChosen DEF f, D

\* Shown, unfolded.
KeyShown(part, keys, cell) == IF part \in cell.shown THEN Append(keys, cell.key) ELSE keys

IsShown(it, part, cells) ==
  it = [s \in SUBSET DOMAIN cells |->
          IF s = {} THEN <<>> ELSE KeyShown(part, it[s \ {Max(s)}], cells[Max(s)])]

LEMMA ShownIsChosen ==
  ASSUME NEW part, NEW cells
  PROVE  Shown(part, cells) = (CHOOSE it : IsShown(it, part, cells))[DOMAIN cells]
  BY Zenon DEF Shown, FoldLeft, MapThenFoldSet, IsShown, KeyShown

\* The keys shown are keys of the cells, each at most once.
LEMMA ShownKeysDiffer ==
  ASSUME NEW part, NEW cells \in Seq(Cell), IsInjective(KeysOf(cells))
  PROVE  Shown(part, cells) \in Seq(STRING \X STRING) /\ IsInjective(Shown(part, cells))
<1> DEFINE D == DOMAIN cells
           K == STRING \X STRING
           g == [ai \in Seq(K) \X D |-> KeyShown(part, ai[1], cells[ai[2]])]
<1>1. D \in SUBSET Nat /\ IsFiniteSet(D)
  <2>1. D = 1..Len(cells) /\ Len(cells) \in Nat
    OBVIOUS
  <2> QED
    BY <2>1, FS_Interval
<1>2. \A i \in D : cells[i].key \in K
  <2>1. \A i \in D : cells[i] \in Cell
    OBVIOUS
  <2> QED
    BY <2>1 DEF Cell
<1>3. \A i, j \in D : cells[i].key = cells[j].key => i = j
  BY DEF IsInjective, KeysOf
<1> HIDE DEF D, K
<1>4. \A a \in Seq(K), i \in D : KeyShown(part, a, cells[i]) \in Seq(K)
  BY <1>2 DEF KeyShown
<1>5. g \in [Seq(K) \X D -> Seq(K)]
  <2>1. \A ai \in Seq(K) \X D : ai[1] \in Seq(K) /\ ai[2] \in D
    OBVIOUS
  <2> QED
    BY <1>4, <2>1
<1>6. <<>> \in Seq(K)
  OBVIOUS
<1>7. \A a \in Seq(K), i \in D : g[<<a, i>>] = KeyShown(part, a, cells[i])
  OBVIOUS
<1> HIDE DEF g
<1>8. PICK it : IsFoldOf(it, g, <<>>, D)
  BY <1>1, FoldExists
<1>9. \A s \in SUBSET D : it[s] \in Seq(K)
  BY <1>1, <1>5, <1>6, <1>8, FoldStays
<1>10. \A s \in SUBSET D : s # {} => Max(s) \in s /\ Max(s) \in D /\ s \ {Max(s)} \in SUBSET D
  BY <1>1, FS_Subset, MaxIsIn
<1>11. IsShown(it, part, cells)
  <2>1. it = [s \in SUBSET D |-> IF s = {} THEN <<>> ELSE g[<<it[s \ {Max(s)}], Max(s)>>]]
    BY <1>8 DEF IsFoldOf
  <2>2. \A s \in SUBSET D :
          s # {} => g[<<it[s \ {Max(s)}], Max(s)>>] = KeyShown(part, it[s \ {Max(s)}], cells[Max(s)])
    BY <1>7, <1>9, <1>10
  <2> QED
    BY <2>1, <2>2 DEF IsShown, D
<1> DEFINE f == CHOOSE f : IsShown(f, part, cells)
<1>12. IsShown(f, part, cells)
  BY <1>11
<1> HIDE DEF f
<1>13. f = [s \in SUBSET D |->
              IF s = {} THEN <<>> ELSE KeyShown(part, f[s \ {Max(s)}], cells[Max(s)])]
  BY <1>12 DEF IsShown, D
<1> DEFINE Good(keys, s) ==
             /\ keys \in Seq(K)
             /\ \A j, k \in 1..Len(keys) : keys[j] = keys[k] => j = k
             /\ \A j \in 1..Len(keys) : \E i \in s : keys[j] = cells[i].key
           Bad == {s \in SUBSET D : ~Good(f[s], s)}
<1>14. Good(<<>>, {})
  BY <1>6
<1>15. ASSUME NEW s \in SUBSET D, NEW m \in s, NEW keys, Good(keys, s \ {m})
       PROVE  Good(KeyShown(part, keys, cells[m]), s)
  <2>1. keys \in Seq(K) /\ cells[m].key \in K /\ m \in D
    BY <1>2, <1>15
  <2>2. CASE part \notin cells[m].shown
    BY <1>15, <2>2 DEF KeyShown
  <2>3. CASE part \in cells[m].shown
    <3> DEFINE n == Len(keys)
               more == Append(keys, cells[m].key)
    <3>1. KeyShown(part, keys, cells[m]) = more
      BY <2>3 DEF KeyShown
    <3>2. /\ n \in Nat /\ more \in Seq(K) /\ Len(more) = n + 1 /\ more[n + 1] = cells[m].key
          /\ \A j \in 1..n : more[j] = keys[j]
      BY <2>1
    <3> HIDE DEF more
    <3>3. \A j \in 1..n : keys[j] # cells[m].key
      BY <1>3, <1>15, <2>1
    <3>4. \A j \in 1..(n + 1) : j = n + 1 \/ j \in 1..n
      BY <3>2
    <3>5. \A j, k \in 1..n : keys[j] = keys[k] => j = k
      BY <1>15
    <3>6. \A j \in 1..n : \E i \in s : keys[j] = cells[i].key
      BY <1>15
    <3> HIDE DEF n
    <3>7. \A j, k \in 1..(n + 1) : more[j] = more[k] => j = k
      BY <3>2, <3>3, <3>4, <3>5
    <3>8. \A j \in 1..(n + 1) : \E i \in s : more[j] = cells[i].key
      BY <3>2, <3>4, <3>6
    <3> QED
      BY <3>1, <3>2, <3>7, <3>8
  <2> QED
    BY <2>2, <2>3
<1> HIDE DEF Good
<1>16. Bad = {}
  <2> SUFFICES ASSUME Bad # {} PROVE FALSE
    OBVIOUS
  <2>1. Bad \in SUBSET (SUBSET D)
    OBVIOUS
  <2>2. PICK s \in Bad : \A t \in SUBSET s : t # s => t \notin Bad
    <3> HIDE DEF Bad
    <3> QED
      BY <1>1, <2>1, SmallestSet
  <2>3. s # {}
    BY <1>13, <1>14, <2>2
  <2>4. Max(s) \in s /\ s \ {Max(s)} \in SUBSET D /\ s \ {Max(s)} # s
    BY <1>10, <2>2, <2>3
  <2>5. Good(f[s \ {Max(s)}], s \ {Max(s)})
    BY <2>2, <2>4
  <2>6. f[s] = KeyShown(part, f[s \ {Max(s)}], cells[Max(s)])
    BY <1>13, <2>2, <2>3
  <2> QED
    BY <1>15, <2>2, <2>4, <2>5, <2>6
<1>17. D \in SUBSET D
  OBVIOUS
<1>18. Good(f[D], D)
  BY <1>16, <1>17
<1>19. Shown(part, cells) = f[D]
  BY ShownIsChosen DEF f, D
<1> QED
  BY <1>18, <1>19 DEF Good, K, IsInjective

LEMMA TopdownGathered ==
  ASSUME NEW report, TopdownShape(report), ValidTopdown(report)
  PROVE  Gathered(TopdownMetrics(report),
                  {"cycles", "instructions", "ipc_ratio", "bound_percent", "pmu_event_count_value"})
<1> DEFINE nodes == ParsedTree(report.tree).nodes
           paths == [i \in DOMAIN nodes |-> nodes[i].path]
           first == <<<<"cycles">>, <<"instructions">>, <<"ipc_ratio">>>>
           bound == Named("bound_percent", paths)
           pmu == Named("pmu_event_count_value", report.pmu)
<1>1. Gathered(first, {"cycles", "instructions", "ipc_ratio"})
  <2>1. first \in Seq({first[i] : i \in DOMAIN first})
    OBVIOUS
  <2>2. DOMAIN first = 1..3 /\ first[1] = <<"cycles">> /\ first[2] = <<"instructions">>
        /\ first[3] = <<"ipc_ratio">>
    OBVIOUS
  <2>3. \A i \in 1..3 : i = 1 \/ i = 2 \/ i = 3
    OBVIOUS
  <2>4. first[1][1] = "cycles" /\ first[2][1] = "instructions" /\ first[3][1] = "ipc_ratio"
    OBVIOUS
  <2> HIDE DEF first
  <2>5. IsInjective(first)
    BY <2>2, <2>3, <2>4 DEF IsInjective
  <2> QED
    BY <2>1, <2>2, <2>3, <2>4, <2>5 DEF Gathered
<1>2. Gathered(bound, {"bound_percent"})
  <2>1. /\ nodes \in Seq(Node)
        /\ \A j, k \in DOMAIN nodes : nodes[j].path = nodes[k].path => j = k
    <3>1. report.tree \in Seq(TreeRow) /\ ParsedTree(report.tree).ok
      BY DEF TopdownShape, ValidTopdown
    <3>2. ParsedTree(report.tree) \in Tree
          /\ Sound(report.tree, ParsedTree(report.tree), Len(report.tree))
      BY <3>1, ParseIsSound
    <3>3. nodes \in Seq(Node)
      BY <3>2 DEF Tree
    <3>4. DOMAIN nodes = 1..Len(report.tree)
      BY <3>2, <3>3 DEF Sound
    <3> QED
      BY <3>2, <3>3, <3>4 DEF Sound
  <2>2. \A i \in DOMAIN nodes : nodes[i].path \in Seq(STRING)
    <3> HIDE DEF nodes
    <3>1. \A i \in DOMAIN nodes : nodes[i] \in Node
      BY <2>1
    <3> QED
      BY <3>1 DEF Node
  <2>3. paths \in Seq(Seq(STRING))
    <3> HIDE DEF nodes
    <3>1. DOMAIN nodes = 1..Len(nodes) /\ Len(nodes) \in Nat
      BY <2>1
    <3> QED
      BY <2>2, <3>1
  <2>4. IsInjective(paths)
    BY <2>1 DEF IsInjective
  <2> HIDE DEF paths
  <2> QED
    BY <2>3, <2>4, NamedIsGathered
<1>3. Gathered(pmu, {"pmu_event_count_value"})
  <2>1. report.pmu \in Seq(STRING) /\ IsInjective(report.pmu)
    BY DEF TopdownShape, ValidTopdown, ValidEvents
  <2> QED
    BY <2>1, NamedIsGathered
<1>4. TopdownMetrics(report) = first \o bound \o pmu
  BY DEF TopdownMetrics
<1> HIDE DEF first, bound, pmu
<1>5. Gathered(first \o bound, {"cycles", "instructions", "ipc_ratio"} \cup {"bound_percent"})
  BY <1>1, <1>2, GatheredTogether
<1>6. Gathered((first \o bound) \o pmu,
               ({"cycles", "instructions", "ipc_ratio"} \cup {"bound_percent"}) \cup {"pmu_event_count_value"})
  BY <1>3, <1>5, GatheredTogether
<1>7. ({"cycles", "instructions", "ipc_ratio"} \cup {"bound_percent"}) \cup {"pmu_event_count_value"}
      = {"cycles", "instructions", "ipc_ratio", "bound_percent", "pmu_event_count_value"}
  OBVIOUS
<1> QED
  BY <1>4, <1>6, <1>7

LEMMA TableIsCells ==
  ASSUME NEW rows, NEW labels,
         labels \in Seq(STRING), rows \in Seq([key : STRING, cells : Seq(SUBSET {"bandwidth", "hit"})]),
         ValidCells(rows, labels)
  PROVE  /\ CellsOf(rows, labels) \in Seq(Cell)
         /\ KeysOf(CellsOf(rows, labels)) \in Seq(STRING \X STRING)
         /\ IsInjective(KeysOf(CellsOf(rows, labels)))
<1> DEFINE cells == CellsOf(rows, labels)
           K == STRING \X STRING
<1>1. cells \in Seq(Cell)
  BY CellsAreCells DEF ValidCells, Parts
<1>2. IsInjective(KeysOf(cells))
  BY DEF ValidCells
<1> HIDE DEF cells
<1>3. \A i \in DOMAIN cells : cells[i].key \in K
  <2>1. \A i \in DOMAIN cells : cells[i] \in Cell
    BY <1>1
  <2> QED
    BY <2>1 DEF Cell
<1> HIDE DEF K
<1>4. KeysOf(cells) \in Seq(K)
  <2>1. DOMAIN cells = 1..Len(cells) /\ Len(cells) \in Nat
    BY <1>1
  <2> QED
    BY <1>3, <2>1 DEF KeysOf
<1> QED
  BY <1>1, <1>2, <1>4 DEF cells, K

LEMMA MemoryGathered ==
  ASSUME NEW report, MemoryShape(report), ValidMemory(report)
  PROVE  Gathered(MemoryMetrics(report),
                  {"cache_miss", "ddr_system_bandwidth", "access_bandwidth", "access_hit",
                   "l3_read", "ddrc_bandwidth"})
<1> DEFINE access == CellsOf(report.access, report.components)
           a == Named("cache_miss", report.cacheMiss)
           b == Named("ddr_system_bandwidth", report.ddrSystem)
           c == Named("access_bandwidth", Shown("bandwidth", access))
           d == Named("access_hit", Shown("hit", access))
           e == Named("l3_read", report.l3)
           f == Named("ddrc_bandwidth", KeysOf(CellsOf(report.ddrc, report.controllers)))
<1>1. Gathered(a, {"cache_miss"}) /\ Gathered(b, {"ddr_system_bandwidth"}) /\ Gathered(e, {"l3_read"})
  <2>1. /\ report.cacheMiss \in Seq(STRING) /\ IsInjective(report.cacheMiss)
        /\ report.ddrSystem \in Seq(STRING) /\ IsInjective(report.ddrSystem)
        /\ report.l3 \in Seq(STRING \X STRING) /\ IsInjective(report.l3)
    BY DEF MemoryShape, ValidMemory, ValidCacheMiss, ValidDdrSystem, ValidL3, ValidRows
  <2> QED
    BY <2>1, NamedIsGathered
<1>2. Gathered(c, {"access_bandwidth"}) /\ Gathered(d, {"access_hit"})
  <2>1. access \in Seq(Cell) /\ IsInjective(KeysOf(access))
    BY TableIsCells DEF MemoryShape, ValidMemory, ValidAccess
  <2> HIDE DEF access
  <2>2. \A part : Shown(part, access) \in Seq(STRING \X STRING) /\ IsInjective(Shown(part, access))
    BY <2>1, ShownKeysDiffer
  <2> QED
    BY <2>2, NamedIsGathered
<1>3. Gathered(f, {"ddrc_bandwidth"})
  <2> DEFINE keys == KeysOf(CellsOf(report.ddrc, report.controllers))
  <2>1. keys \in Seq(STRING \X STRING) /\ IsInjective(keys)
    BY TableIsCells DEF MemoryShape, ValidMemory, ValidDdrc
  <2> HIDE DEF keys
  <2>2. Gathered(Named("ddrc_bandwidth", keys), {"ddrc_bandwidth"})
    BY <2>1, NamedIsGathered
  <2> QED
    BY <2>2 DEF keys
<1>4. MemoryMetrics(report) = a \o b \o c \o d \o e \o f
  BY DEF MemoryMetrics
<1> HIDE DEF a, b, c, d, e, f
<1>5. Gathered(a \o b, {"cache_miss"} \cup {"ddr_system_bandwidth"})
  BY <1>1, GatheredTogether
<1>6. Gathered(a \o b \o c, ({"cache_miss"} \cup {"ddr_system_bandwidth"}) \cup {"access_bandwidth"})
  BY <1>2, <1>5, GatheredTogether
<1> DEFINE N == ({"cache_miss"} \cup {"ddr_system_bandwidth"}) \cup {"access_bandwidth"}
<1>7. Gathered(a \o b \o c \o d, N \cup {"access_hit"})
  BY <1>2, <1>6, GatheredTogether
<1>8. Gathered(a \o b \o c \o d \o e, (N \cup {"access_hit"}) \cup {"l3_read"})
  BY <1>1, <1>7, GatheredTogether
<1>9. Gathered(a \o b \o c \o d \o e \o f, ((N \cup {"access_hit"}) \cup {"l3_read"}) \cup {"ddrc_bandwidth"})
  BY <1>3, <1>8, GatheredTogether
<1>10. ((N \cup {"access_hit"}) \cup {"l3_read"}) \cup {"ddrc_bandwidth"}
       = {"cache_miss", "ddr_system_bandwidth", "access_bandwidth", "access_hit",
          "l3_read", "ddrc_bandwidth"}
  OBVIOUS
<1> QED
  BY <1>4, <1>9, <1>10

--------------------------------------------------------------------------------
\* What a collector has parsed and not yet published, and what it has published, is
\* a report of its command that passed the parser's checks.
Accepted(k, data) ==
  /\ \E output \in Outputs[k] : HasReport(output) /\ data = Last(output)
  /\ IF k = "topdown" THEN ValidTopdown(data) ELSE ValidMemory(data)

DataAccepted(k) ==
  /\ pc[k] = "publish" /\ result[k].error = None => Accepted(k, result[k].data)
  /\ cache[k] # None /\ cache[k].data # None => Accepted(k, cache[k].data)

ReportInvariant == LogInvariant /\ \A k \in Collector : DataAccepted(k)

LEMMA ReportInit == DevkitInit => ReportInvariant
<1> SUFFICES ASSUME DevkitInit, NEW k \in Collector PROVE DataAccepted(k)
  BY LogInit DEF ReportInvariant
<1>1. pc[k] = "off" /\ cache[k] = None
  BY DEF DevkitInit, Each
<1> QED
  BY <1>1 DEF DataAccepted

LEMMA ParsedIsAccepted ==
  ASSUME NEW k \in Collector, NEW output \in Outputs[k], ParseError(k, output) = None
  PROVE  Accepted(k, Last(output))
  BY DevkitAssumption DEF ParseError, Errors, Collector, Accepted

LEMMA OwnReport ==
  ASSUME ReportInvariant, NEW k \in Collector, Round(k)
  PROVE  DataAccepted(k)'
<1>0. Shapes /\ DataAccepted(k) /\ RoundIsLogged(k)
  BY DEF ReportInvariant, LogInvariant
<1>1. CASE StartLoop(k) \/ BeginRound(k) \/ Acquire(k)
  BY <1>0, <1>1 DEF StartLoop, BeginRound, Acquire, Shapes, DataAccepted
<1>2. CASE CommandFails(k)
  <2>1. result'[k].error # None /\ UNCHANGED cache
    BY <1>0, <1>2, DevkitAssumption DEF CommandFails, Finish, Shapes, Errors
  <2> QED
    BY <1>0, <2>1 DEF DataAccepted
<1>3. CASE CommandPrints(k)
  <2>1. PICK output \in Outputs[k] : Finish(k, output, ParseError(k, output))
    BY <1>3 DEF CommandPrints
  <2>2. result'[k].error = ParseError(k, output) /\ UNCHANGED cache
        /\ (ParseError(k, output) = None => result'[k].data = Last(output))
    BY <1>0, <2>1 DEF Finish, Shapes
  <2> QED
    BY <1>0, <2>2, ParsedIsAccepted DEF DataAccepted
<1>4. CASE Publish(k)
  <2>1. /\ pc[k] = "publish" /\ pc'[k] = "idle"
        /\ cache'[k].data # None => result[k].error = None /\ cache'[k].data = result[k].data
    BY <1>0, <1>4 DEF Publish, SuccessEntry, FailureEntry, Shapes
  <2> QED
    BY <1>0, <2>1 DEF DataAccepted
<1> QED
  BY <1>1, <1>2, <1>3, <1>4 DEF Round

LEMMA ReportStep == ReportInvariant /\ [DevkitNext]_devkitVars => ReportInvariant'
<1> SUFFICES ASSUME ReportInvariant, [DevkitNext]_devkitVars, NEW k \in Collector
             PROVE  DataAccepted(k)'
  BY LogStep DEF ReportInvariant
<1>1. CASE \E j \in Collector : Round(j)
  <2>1. PICK j \in Collector : Round(j)
    BY <1>1
  <2>2. CASE j = k
    BY <2>1, <2>2, OwnReport
  <2>3. CASE j # k
    BY <2>1, <2>3, OthersKept DEF ReportInvariant, LogInvariant, DataAccepted
  <2> QED
    BY <2>2, <2>3
<1>2. CASE Restart
  <2>1. pc'[k] = "off" /\ cache'[k] = None
    BY <1>2 DEF Restart, Each
  <2> QED
    BY <2>1 DEF DataAccepted
<1>3. CASE UNCHANGED loopVars
  BY <1>3 DEF ReportInvariant, DataAccepted, loopVars
<1> QED
  BY <1>1, <1>2, <1>3 DEF DevkitNext, EditConfigMap, Observe, Relist, devkitVars

\* NodesUnderTheirParents: the stack of parseTopdownTree files each row of a published
\* tree under the nearest row above it that is one level higher, for every sequence of
\* rows.
THEOREM TreesAreFiled == DevkitSpec => []NodesUnderTheirParents
<1>1. ReportInvariant => NodesUnderTheirParents
  <2> SUFFICES ASSUME ReportInvariant, cache["topdown"] # None, cache["topdown"].data # None
               PROVE  NodesUnderTheirParents
    BY DEF NodesUnderTheirParents
  <2> DEFINE data == cache["topdown"].data
  <2>1. Accepted("topdown", data)
    BY DEF ReportInvariant, DataAccepted, Collector
  <2>2. data.tree \in Seq(TreeRow) /\ ParsedTree(data.tree).ok
    BY <2>1, DevkitAssumption DEF Accepted, ValidTopdown, TopdownShape
  <2> DEFINE rows == data.tree
  <2> HIDE DEF rows
  <2>3. LET nodes == ParsedTree(rows).nodes
            Parent(i) == CHOOSE j \in 1..i-1 :
                           /\ rows[j].level = rows[i].level - 1
                           /\ \A l \in j+1..i-1 : rows[l].level # rows[j].level
        IN  \A i \in DOMAIN rows :
              nodes[i].path = IF rows[i].level = 1 THEN <<rows[i].name>>
                              ELSE Append(nodes[Parent(i)].path, rows[i].name)
    BY <2>2, TreeIsFiled DEF rows
  <2> QED
    BY <2>3 DEF NodesUnderTheirParents, rows
<1> QED
  BY ReportInit, ReportStep, <1>1, PTL DEF DevkitSpec

\* SeriesDistinct: the parsers refuse every report that gives a path, an event, a row or a
\* cell twice, so a scrape of what was accepted never gathers a metric twice, for every
\* report the commands may print.
THEOREM SeriesAreDistinct == DevkitSpec => []SeriesDistinct
<1>1. ReportInvariant => SeriesDistinct
  <2> SUFFICES ASSUME ReportInvariant, NEW k \in Collector PROVE IsInjective(Series(k))
    BY DEF SeriesDistinct
  <2> DEFINE own == <<<<"collection_success">>>>
             data == cache[k].data
             metrics == IF k = "topdown" THEN TopdownMetrics(data) ELSE MemoryMetrics(data)
  <2>1. Gathered(own, {"collection_success"})
    <3>1. own \in Seq({own[i] : i \in DOMAIN own}) /\ DOMAIN own = 1..1 /\ own[1][1] = "collection_success"
      OBVIOUS
    <3> HIDE DEF own
    <3> QED
      BY <3>1 DEF Gathered, IsInjective
  <2>2. CASE cache[k] = None
    BY <2>2 DEF Series, IsInjective
  <2>3. CASE cache[k] # None /\ data = None
    <3>1. Series(k) = own \o <<>> /\ own \o <<>> = own
      BY <2>3 DEF Series
    <3> QED
      BY <2>1, <3>1 DEF Gathered
  <2>4. CASE cache[k] # None /\ data # None
    <3>1. Accepted(k, data)
      BY <2>4 DEF ReportInvariant, DataAccepted
    <3>2. \E N : Gathered(metrics, N) /\ "collection_success" \notin N
      <4>1. CASE k = "topdown"
        <5>1. TopdownShape(data) /\ ValidTopdown(data)
          BY <3>1, <4>1, DevkitAssumption DEF Accepted
        <5> DEFINE N == {"cycles", "instructions", "ipc_ratio", "bound_percent", "pmu_event_count_value"}
        <5>2. Gathered(TopdownMetrics(data), N)
          BY <5>1, TopdownGathered
        <5>3. "collection_success" \notin N
          OBVIOUS
        <5> HIDE DEF N
        <5> QED
          BY <4>1, <5>2, <5>3
      <4>2. CASE k = "memory"
        <5>1. MemoryShape(data) /\ ValidMemory(data)
          BY <3>1, <4>2, DevkitAssumption DEF Accepted
        <5> DEFINE N == {"cache_miss", "ddr_system_bandwidth", "access_bandwidth", "access_hit",
                         "l3_read", "ddrc_bandwidth"}
        <5>2. Gathered(MemoryMetrics(data), N)
          BY <5>1, MemoryGathered
        <5>3. "collection_success" \notin N
          OBVIOUS
        <5> HIDE DEF N
        <5> QED
          BY <4>2, <5>2, <5>3
      <4> QED
        BY <4>1, <4>2 DEF Collector
    <3>3. Series(k) = own \o metrics
      BY <2>4 DEF Series
    <3> HIDE DEF own, metrics
    <3>4. PICK N : Gathered(metrics, N) /\ "collection_success" \notin N
      BY <3>2
    <3>5. {"collection_success"} \cap N = {}
      BY <3>4
    <3>6. Gathered(own \o metrics, {"collection_success"} \cup N)
      BY <2>1, <3>4, <3>5, GatheredTogether
    <3> QED
      BY <3>3, <3>6 DEF Gathered
  <2> QED
    BY <2>2, <2>3, <2>4
<1> QED
  BY ReportInit, ReportStep, <1>1, PTL DEF DevkitSpec

--------------------------------------------------------------------------------
(***************************************************************************)
(* The canonical forms of selectors.                                        *)
(***************************************************************************)
Increasing(s) == \A i, j \in 1..Len(s) : i < j => s[i] < s[j]
Within(s, t) == \A i \in 1..Len(s) : \E j \in 1..Len(t) : t[j] = s[i]

\* An increasing sequence is told by its elements.
LEMMA IncreasingBegins ==
  ASSUME NEW s \in Seq(Nat), NEW t \in Seq(Nat), Increasing(s), Increasing(t),
         Within(s, t), Within(t, s)
  PROVE  \A i \in 1..Len(s) : i \in 1..Len(t) /\ s[i] = t[i]
<1> DEFINE Bad == {i \in 1..Len(s) : ~(i \in 1..Len(t) /\ s[i] = t[i])}
<1> SUFFICES ASSUME Bad # {} PROVE FALSE
  OBVIOUS
<1>1. Bad \in SUBSET Nat
  OBVIOUS
<1>2. PICK m \in Bad : \A i \in Bad : m <= i
  <2> HIDE DEF Bad
  <2> QED
    BY <1>1, MinIsLeast
<1>3. /\ Len(s) \in Nat /\ Len(t) \in Nat /\ m \in 1..Len(s) /\ m \in Int
      /\ \A i \in 1..Len(s) : s[i] \in Int /\ i \in Int
      /\ \A i \in 1..Len(t) : t[i] \in Int /\ i \in Int
  BY SMTT(40), <1>2
<1>4. \A i \in 1..Len(s) : i < m => i \in 1..Len(t) /\ s[i] = t[i]
  BY <1>2, <1>3
<1>5. ~(m \in 1..Len(t) /\ s[m] = t[m])
  BY <1>2
<1> HIDE DEF Bad
<1>6. PICK k \in 1..Len(t) : t[k] = s[m]
  BY <1>3 DEF Within
<1>7. k >= m
  <2> SUFFICES ASSUME k < m PROVE FALSE
    BY <1>3
  <2>1. k \in 1..Len(s)
    BY <1>3
  <2>2. s[k] = t[k] /\ s[k] < s[m]
    BY <1>3, <1>4, <2>1 DEF Increasing
  <2> QED
    BY <1>3, <1>6, <2>1, <2>2
<1>8. m \in 1..Len(t)
  BY <1>3, <1>7
<1>9. t[m] <= s[m]
  BY <1>3, <1>6, <1>7, <1>8 DEF Increasing
<1>10. PICK l \in 1..Len(s) : s[l] = t[m]
  BY <1>8 DEF Within
<1>11. l >= m
  <2> SUFFICES ASSUME l < m PROVE FALSE
    BY <1>3
  <2>1. l \in 1..Len(t) /\ s[l] = t[l]
    BY <1>4
  <2>2. t[l] < t[m]
    BY <1>8, <2>1 DEF Increasing
  <2> QED
    BY <1>3, <1>8, <1>10, <2>1, <2>2
<1>12. s[m] <= t[m]
  BY <1>3, <1>10, <1>11 DEF Increasing
<1> QED
  BY <1>3, <1>5, <1>8, <1>9, <1>12

LEMMA IncreasingUnique ==
  ASSUME NEW s \in Seq(Nat), NEW t \in Seq(Nat), Increasing(s), Increasing(t),
         Within(s, t), Within(t, s)
  PROVE  s = t
<1>1. \A i \in 1..Len(s) : i \in 1..Len(t) /\ s[i] = t[i]
  BY IncreasingBegins
<1>2. \A i \in 1..Len(t) : i \in 1..Len(s)
  BY IncreasingBegins
<1>3. DOMAIN s = 1..Len(s) /\ DOMAIN t = 1..Len(t) /\ s = [i \in 1..Len(s) |-> s[i]]
      /\ t = [i \in 1..Len(t) |-> t[i]]
  OBVIOUS
<1>4. 1..Len(s) = 1..Len(t)
  BY <1>1, <1>2
<1> QED
  BY <1>1, <1>3, <1>4

\* The elements of s at the positions taken in the order R.
Arrangement(s, R) ==
  LET first(i) == {j \in DOMAIN s : <<j, i>> \in R \/ j = i}
  IN  [k \in DOMAIN s |-> s[CHOOSE i \in DOMAIN s : Cardinality(first(i)) = k]]

StrictOrder(R, n) ==
  /\ \A i \in 1..n : <<i, i>> \notin R
  /\ \A i, j \in 1..n : i # j => <<i, j>> \in R \/ <<j, i>> \in R
  /\ \A i, j, k \in 1..n : <<i, j>> \in R /\ <<j, k>> \in R => <<i, k>> \in R

\* SortedBy puts the elements in order, for a strict total order of the positions.
Rearranged(s, t, R) ==
  /\ Len(t) = Len(s)
  /\ \A k \in 1..Len(t) : \E i \in 1..Len(s) : s[i] = t[k]
  /\ \A i \in 1..Len(s) : \E k \in 1..Len(t) : t[k] = s[i]
  /\ \A k, l \in 1..Len(t) : k < l =>
       \E i, j \in 1..Len(s) : t[k] = s[i] /\ t[l] = s[j] /\ <<i, j>> \in R

LEMMA ArrangementIsOrdered ==
  ASSUME NEW S, NEW s \in Seq(S), NEW R, StrictOrder(R, Len(s))
  PROVE  Arrangement(s, R) \in Seq(S) /\ Rearranged(s, Arrangement(s, R), R)
<1> DEFINE n == Len(s)
           first(i) == {j \in 1..n : <<j, i>> \in R \/ j = i}
           at(k) == CHOOSE i \in 1..n : Cardinality(first(i)) = k
           t == Arrangement(s, R)
<1>1. n \in Nat /\ DOMAIN s = 1..n /\ \A i \in 1..n : s[i] \in S
  OBVIOUS
<1>2. /\ \A k \in 1..n : at(k) \in 1..n
      /\ \A i \in 1..n : \E k \in 1..n : at(k) = i
      /\ \A k, l \in 1..n : k < l => <<at(k), at(l)>> \in R
  <2> HIDE DEF n
  <2>1. StrictOrder(R, n)
    BY DEF n
  <2> QED
    BY <1>1, <2>1, Arranged DEF StrictOrder
<1>3. t = [k \in 1..n |-> s[at(k)]]
  BY <1>1 DEF Arrangement
<1> HIDE DEF at, t, n
<1>4. \A k \in 1..n : t[k] = s[at(k)] /\ t[k] \in S
  BY <1>1, <1>2, <1>3
<1>5. t \in Seq(S) /\ Len(t) = n
  BY <1>1, <1>3, <1>4
<1>6. \A k \in 1..n : \E i \in 1..n : s[i] = t[k]
  BY <1>2, <1>4
<1>7. \A i \in 1..n : \E k \in 1..n : t[k] = s[i]
  BY <1>2, <1>4
<1>9. Rearranged(s, t, R)
  <2>1. n = Len(s) /\ Len(t) = n
    BY <1>5 DEF n
  <2>2. \A k \in 1..Len(t) : \E i \in 1..Len(s) : s[i] = t[k]
    BY ONLY <1>6, <2>1
  <2>3. \A i \in 1..Len(s) : \E k \in 1..Len(t) : t[k] = s[i]
    BY ONLY <1>7, <2>1
  <2>4. \A k, l \in 1..Len(t) : k < l =>
         \E i, j \in 1..Len(s) : t[k] = s[i] /\ t[l] = s[j] /\ <<i, j>> \in R
    <3> TAKE k, l \in 1..Len(t)
    <3> HAVE k < l
    <3>1. at(k) \in 1..n /\ at(l) \in 1..n /\ <<at(k), at(l)>> \in R
          /\ t[k] = s[at(k)] /\ t[l] = s[at(l)]
      BY <1>2, <1>4, <2>1
    <3>2. 1..n = 1..Len(s)
      BY <2>1
    <3> QED
      BY ONLY <3>1, <3>2
  <2> QED
    BY ONLY <2>1, <2>2, <2>3, <2>4 DEF Rearranged
<1> QED
  BY <1>5, <1>9 DEF t

--------------------------------------------------------------------------------
Ordered(e) == e[1] <= e[2]
Interval == {e \in Nat \X Nat : Ordered(e)}

CpuOrder(sel) == SortedBy([i \in DOMAIN sel |-> Ascending(sel[i])], StartsBefore)

LEMMA CpusInOrder ==
  ASSUME NEW sel \in CpuSelector
  PROVE  LET t == CpuOrder(sel)
         IN  /\ t \in Seq(Interval)
             /\ \A k \in 1..Len(t) : \E i \in 1..Len(sel) : Ascending(sel[i]) = t[k]
             /\ \A i \in 1..Len(sel) : \E k \in 1..Len(t) : t[k] = Ascending(sel[i])
             /\ \A k, l \in 1..Len(t) : k < l => t[k][1] <= t[l][1]
<1> DEFINE s == [i \in DOMAIN sel |-> Ascending(sel[i])]
           n == Len(sel)
           R == {ij \in (1..n) \X (1..n) :
                   \/ StartsBefore(s[ij[1]], s[ij[2]])
                   \/ s[ij[1]] = s[ij[2]] /\ ij[1] < ij[2]}
           t == CpuOrder(sel)
<1>1. n \in Nat /\ DOMAIN sel = 1..n
  BY DEF CpuSelector
<1>2. \A i \in 1..n : Ascending(sel[i]) \in Interval
  <2> TAKE i \in 1..n
  <2>1. sel[i] \in Nat \X Nat
    BY DEF CpuSelector
  <2> HIDE DEF n
  <2>2. sel[i] = <<sel[i][1], sel[i][2]>> /\ sel[i][1] \in Nat /\ sel[i][2] \in Nat
    BY <2>1
  <2> QED
    BY <2>2 DEF Ascending, Interval, Ordered
<1>3. s \in Seq(Interval) /\ Len(s) = n /\ \A i \in 1..n : s[i] = Ascending(sel[i])
  <2> HIDE DEF n
  <2> QED
    BY <1>1, <1>2
<1>4. \A i \in 1..n : s[i] = <<s[i][1], s[i][2]>> /\ s[i][1] \in Nat /\ s[i][2] \in Nat
                      /\ s[i][1] <= s[i][2]
  <2> TAKE i \in 1..n
  <2>1. s[i] \in Interval
    BY <1>2, <1>3
  <2> HIDE DEF s
  <2> QED
    BY <2>1 DEF Interval, Ordered
<1> HIDE DEF s, n
<1>5. \A i, j \in 1..n : <<i, j>> \in R <=> \/ StartsBefore(s[i], s[j])
                                            \/ s[i] = s[j] /\ i < j
  OBVIOUS
<1>6. t = Arrangement(s, R)
  <2> DEFINE first(i) == {j \in DOMAIN s : <<j, i>> \in R \/ j = i}
             place(i) == {j \in DOMAIN s : StartsBefore(s[j], s[i]) \/ (s[j] = s[i] /\ j =< i)}
  <2>1. DOMAIN s = 1..n
    BY <1>3
  <2>2. \A i \in DOMAIN s : first(i) = place(i)
    <3> TAKE i \in DOMAIN s
    <3>1. ASSUME NEW j \in DOMAIN s PROVE j \in first(i) <=> j \in place(i)
      <4>1. i \in 1..n /\ j \in 1..n /\ i \in Int /\ j \in Int
        BY <1>1, <2>1
      <4>2. j =< i <=> j < i \/ j = i
        BY <4>1
      <4> HIDE DEF R
      <4> QED
        BY <1>5, <4>1, <4>2
    <3> QED
      BY <3>1
  <2>3. t = [k \in DOMAIN s |-> s[CHOOSE i \in DOMAIN s : Cardinality(place(i)) = k]]
    BY Zenon DEF SortedBy, CpuOrder, s
  <2> HIDE DEF first, place
  <2>4. \A k : (CHOOSE i \in DOMAIN s : Cardinality(place(i)) = k)
               = CHOOSE i \in DOMAIN s : Cardinality(first(i)) = k
    <3> TAKE k
    <3>1. \A i : i \in DOMAIN s /\ Cardinality(place(i)) = k <=> i \in DOMAIN s /\ Cardinality(first(i)) = k
      BY <2>2
    <3> QED
      BY <3>1
  <2>5. t = [k \in DOMAIN s |-> s[CHOOSE i \in DOMAIN s : Cardinality(first(i)) = k]]
    <3> DEFINE a(k) == s[CHOOSE i \in DOMAIN s : Cardinality(place(i)) = k]
               b(k) == s[CHOOSE i \in DOMAIN s : Cardinality(first(i)) = k]
    <3>1. t = [k \in DOMAIN s |-> a(k)] /\ \A k \in DOMAIN s : a(k) = b(k)
      BY <2>3, <2>4
    <3> HIDE DEF a, b, t
    <3>2. t = [k \in DOMAIN s |-> b(k)]
      BY <3>1
    <3> QED
      BY <3>2 DEF b
  <2> QED
    BY <2>5 DEF first, Arrangement
<1> HIDE DEF R, t
<1>7. \A i \in 1..n : <<i, i>> \notin R
  <2> TAKE i \in 1..n
  <2>1. ~StartsBefore(s[i], s[i])
    BY <1>4 DEF StartsBefore
  <2>2. ~(i < i)
    BY <1>1
  <2> QED
    BY <1>5, <2>1, <2>2
<1>8. \A i, j \in 1..n : i # j => <<i, j>> \in R \/ <<j, i>> \in R
  <2> TAKE i, j \in 1..n
  <2> HAVE i # j
  <2>1. i < j \/ j < i
    BY <1>1
  <2>2. StartsBefore(s[i], s[j]) \/ StartsBefore(s[j], s[i]) \/ s[i] = s[j]
    BY <1>4 DEF StartsBefore
  <2> QED
    BY <1>5, <2>1, <2>2
<1>9. \A i, j, k \in 1..n : <<i, j>> \in R /\ <<j, k>> \in R => <<i, k>> \in R
  <2> TAKE i, j, k \in 1..n
  <2> HAVE <<i, j>> \in R /\ <<j, k>> \in R
  <2>1. i < j /\ j < k => i < k
    BY <1>1
  <2>2. StartsBefore(s[i], s[j]) /\ StartsBefore(s[j], s[k]) => StartsBefore(s[i], s[k])
    BY <1>4 DEF StartsBefore
  <2> QED
    BY <1>5, <2>1, <2>2
<1>10. /\ t \in Seq(Interval) /\ Len(t) = n
       /\ \A k \in 1..Len(t) : \E i \in 1..n : s[i] = t[k]
       /\ \A i \in 1..n : \E k \in 1..Len(t) : t[k] = s[i]
       /\ \A k, l \in 1..Len(t) : k < l =>
            \E i, j \in 1..n : t[k] = s[i] /\ t[l] = s[j] /\ <<i, j>> \in R
  <2>1. StrictOrder(R, Len(s)) /\ s \in Seq(Interval) /\ Len(s) = n
    BY <1>3, <1>7, <1>8, <1>9 DEF StrictOrder
  <2> HIDE DEF Interval
  <2>2. t \in Seq(Interval) /\ Rearranged(s, t, R)
    BY <1>6, <2>1, ArrangementIsOrdered
  <2> QED
    BY <2>1, <2>2 DEF Rearranged
<1>11. ASSUME NEW k \in 1..Len(t), NEW l \in 1..Len(t), k < l PROVE t[k][1] <= t[l][1]
  <2>1. PICK i \in 1..n, j \in 1..n : t[k] = s[i] /\ t[l] = s[j] /\ <<i, j>> \in R
    BY ZenonT(40), <1>10, <1>11
  <2>2. StartsBefore(s[i], s[j]) \/ s[i] = s[j]
    BY <1>5, <2>1
  <2>3. s[i][1] <= s[j][1]
    BY <1>4, <2>2 DEF StartsBefore
  <2> QED
    BY <2>1, <2>3
<1> QED
  BY <1>3, <1>10, <1>11 DEF t, n

Pair == Nat \X Nat

\* What a merged interval covers.
Covers(m, v) == \E j \in 1..Len(m) : m[j][1] <= v /\ v <= m[j][2]

\* Intervals in order, with a gap between any two.
Apart(m) ==
  /\ m \in Seq(Interval)
  /\ \A j, k \in 1..Len(m) : j < k => m[j][2] + 1 < m[k][1]

LEMMA Merged ==
  ASSUME NEW m, Apart(m), NEW x \in Interval, \A j \in 1..Len(m) : m[j][1] <= x[1]
  PROVE  /\ Apart(MergeInterval(m, x))
         /\ \A v \in Nat : Covers(MergeInterval(m, x), v)
                           <=> Covers(m, v) \/ (x[1] <= v /\ v <= x[2])
         /\ \A j \in 1..Len(MergeInterval(m, x)) : MergeInterval(m, x)[j][1] <= x[1]
<1> DEFINE n == Len(m)
           new == MergeInterval(m, x)
<1>1. /\ n \in Nat /\ m \in Seq(Interval)
      /\ \A j \in 1..n : m[j] \in Interval /\ m[j][1] \in Nat /\ m[j][2] \in Nat
                         /\ m[j][1] <= m[j][2] /\ m[j] = <<m[j][1], m[j][2]>>
      /\ x[1] \in Nat /\ x[2] \in Nat /\ x[1] <= x[2] /\ x = <<x[1], x[2]>>
  <2>1. m \in Seq(Interval)
    BY DEF Apart
  <2>2. \A e \in Interval : e[1] \in Nat /\ e[2] \in Nat /\ e[1] <= e[2] /\ e = <<e[1], e[2]>>
    BY DEF Interval, Ordered
  <2>3. n \in Nat /\ \A j \in 1..n : m[j] \in Interval
    <3> HIDE DEF Interval
    <3> QED
      BY <2>1
  <2> HIDE DEF n, Interval
  <2> QED
    BY <2>1, <2>2, <2>3
<1>2. \A j, k \in 1..n : j < k => m[j][2] + 1 < m[k][1]
  BY DEF Apart
<1>3. CASE m = <<>> \/ ~(x[1] <= Last(m)[2] + 1)
  <2>1. new = Append(m, x)
    BY <1>3 DEF MergeInterval
  <2>2. /\ new \in Seq(Interval) /\ Len(new) = n + 1 /\ new[n + 1] = x
        /\ \A j \in 1..n : new[j] = m[j]
    <3> HIDE DEF new, Interval
    <3> QED
      BY <1>1, <2>1
  <2>3. \A j \in 1..n : m[j][2] + 1 < x[1]
    <3> TAKE j \in 1..n
    <3>1. m # <<>> /\ m[n][2] + 1 < x[1] /\ n \in 1..n
      BY SMTT(40), <1>1, <1>3 DEF Last
    <3>2. CASE j = n
      BY <3>1, <3>2
    <3>3. CASE j < n
      BY <1>1, <1>2, <3>1, <3>3
    <3> QED
      BY <1>1, <3>2, <3>3
  <2>4. \A j \in 1..(n + 1) : j = n + 1 \/ (j \in 1..n /\ j < n + 1)
    BY <1>1
  <2> HIDE DEF new, n
  <2>5. \A j, k \in 1..(n + 1) : j < k => new[j][2] + 1 < new[k][1]
    <3> TAKE j, k \in 1..(n + 1)
    <3> HAVE j < k
    <3>1. j \in 1..n
      BY <1>1
    <3>2. k \in 1..n \/ k = n + 1
      BY <2>4
    <3> QED
      BY <1>2, <2>2, <2>3, <3>1, <3>2
  <2>6. Apart(new)
    BY <2>2, <2>5 DEF Apart
  <2>7. \A v \in Nat : Covers(new, v) <=> Covers(m, v) \/ (x[1] <= v /\ v <= x[2])
    <3> TAKE v \in Nat
    <3>1. Covers(new, v) => Covers(m, v) \/ (x[1] <= v /\ v <= x[2])
      BY <2>2, <2>4 DEF Covers, n
    <3>2. Covers(m, v) => Covers(new, v)
      <4> SUFFICES ASSUME NEW j \in 1..n, m[j][1] <= v, v <= m[j][2] PROVE Covers(new, v)
        BY DEF Covers, n
      <4>1. j \in 1..(n + 1) /\ new[j] = m[j]
        BY <1>1, <2>2
      <4> QED
        BY <2>2, <4>1 DEF Covers
    <3>3. x[1] <= v /\ v <= x[2] => Covers(new, v)
      <4>1. n + 1 \in 1..(n + 1)
        BY <1>1
      <4> QED
        BY <2>2, <4>1 DEF Covers
    <3> QED
      BY <3>1, <3>2, <3>3
  <2>8. \A j \in 1..Len(new) : new[j][1] <= x[1]
    BY <1>1, <2>2, <2>4 DEF n
  <2> QED
    BY <2>6, <2>7, <2>8 DEF new
<1>4. CASE m # <<>> /\ x[1] <= Last(m)[2] + 1 /\ x[2] > Last(m)[2]
  <2>1. new = [m EXCEPT ![n] = <<@[1], x[2]>>] /\ n \in 1..n
    BY <1>1, <1>4 DEF MergeInterval
  <2>2. n > 0 /\ m[n] = Last(m) /\ x[1] <= m[n][2] + 1 /\ x[2] > m[n][2]
    BY <1>1, <1>4 DEF Last
  <2>3. <<m[n][1], x[2]>> \in Interval
    BY <1>1, <2>1, <2>2 DEF Interval, Ordered
  <2>4. /\ Len(new) = n /\ new \in Seq(Interval)
        /\ \A j \in 1..n : j # n => new[j] = m[j]
        /\ new[n][1] = m[n][1] /\ new[n][2] = x[2]
    <3>1. \A j \in 1..n : new[j] = IF j = n THEN <<m[n][1], x[2]>> ELSE m[j]
      BY <1>1, <2>1
    <3>2. DOMAIN new = 1..n /\ new = [j \in DOMAIN new |-> new[j]]
      <4> DEFINE e == <<m[n][1], x[2]>>
      <4>1. new = [m EXCEPT ![n] = e] /\ DOMAIN m = 1..n
        <5> HIDE DEF Interval
        <5> QED
          BY <1>1, <2>1
      <4> HIDE DEF new, e, n
      <4> QED
        BY <4>1
    <3> HIDE DEF new, Interval, n
    <3>3. \A j \in 1..n : new[j] \in Interval
      BY <1>1, <2>3, <3>1
    <3>4. new \in [1..n -> Interval]
      BY <3>2, <3>3
    <3>5. new \in Seq(Interval) /\ Len(new) = n
      BY <1>1, <3>4
    <3> QED
      BY <2>1, <3>1, <3>5
  <2> HIDE DEF new, n
  <2>5. \A j \in 1..n : new[j][1] = m[j][1]
    BY <2>4
  <2>6. \A j, k \in 1..n : j < k => new[j][2] + 1 < new[k][1]
    <3> TAKE j, k \in 1..n
    <3> HAVE j < k
    <3>1. j # n
      BY <1>1
    <3> QED
      BY <1>2, <2>4, <2>5, <3>1
  <2>7. Apart(new)
    BY <2>4, <2>6 DEF Apart
  <2>8. \A v \in Nat : Covers(new, v) <=> Covers(m, v) \/ (x[1] <= v /\ v <= x[2])
    <3> TAKE v \in Nat
    <3>1. ASSUME NEW j \in 1..n, new[j][1] <= v, v <= new[j][2]
          PROVE  (m[j][1] <= v /\ v <= m[j][2]) \/ (x[1] <= v /\ v <= x[2])
      <4>1. CASE j # n
        BY <2>4, <3>1, <4>1
      <4>2. CASE j = n
        BY <1>1, <2>1, <2>2, <2>4, <3>1, <4>2
      <4> QED
        BY <4>1, <4>2
    <3>2. ASSUME NEW j \in 1..n, m[j][1] <= v, v <= m[j][2]
          PROVE  new[j][1] <= v /\ v <= new[j][2]
      <4>1. CASE j # n
        BY <2>4, <3>2, <4>1
      <4>2. CASE j = n
        BY <1>1, <2>1, <2>2, <2>4, <3>2, <4>2
      <4> QED
        BY <4>1, <4>2
    <3>3. x[1] <= v /\ v <= x[2] => new[n][1] <= v /\ v <= new[n][2]
      <4>1. m[n][1] <= x[1] /\ m[n][1] \in Nat
        BY <1>1, <2>1 DEF n
      <4> QED
        BY <1>1, <2>4, <4>1
    <3>4. Covers(new, v) <=> \E j \in 1..n : new[j][1] <= v /\ v <= new[j][2]
      BY <2>4 DEF Covers
    <3>5. Covers(m, v) <=> \E j \in 1..n : m[j][1] <= v /\ v <= m[j][2]
      BY DEF Covers, n
    <3> QED
      BY <2>1, <3>1, <3>2, <3>3, <3>4, <3>5
  <2>9. \A j \in 1..Len(new) : new[j][1] <= x[1]
    BY <2>4, <2>5 DEF n
  <2> QED
    BY <2>7, <2>8, <2>9 DEF new
<1>5. CASE m # <<>> /\ x[1] <= Last(m)[2] + 1 /\ ~(x[2] > Last(m)[2])
  <2>1. new = m
    BY <1>5 DEF MergeInterval
  <2>2. n \in 1..n /\ m[n][2] >= x[2] /\ m[n][1] <= x[1]
    BY <1>1, <1>5 DEF Last
  <2>3. \A v \in Nat : x[1] <= v /\ v <= x[2] => Covers(m, v)
    <3> TAKE v \in Nat
    <3> HAVE x[1] <= v /\ v <= x[2]
    <3>1. m[n][1] <= v /\ v <= m[n][2]
      BY <1>1, <2>2
    <3> QED
      BY <2>2, <3>1 DEF Covers
  <2> QED
    BY <2>1, <2>3
<1> QED
  BY <1>3, <1>4, <1>5

\* Intervals apart from each other are told by what they cover.
Starts(m) == [j \in 1..Len(m) |-> m[j][1]]
Ends(m) == [j \in 1..Len(m) |-> m[j][2]]

LEMMA ApartBounds ==
  ASSUME NEW m, Apart(m)
  PROVE  /\ Starts(m) \in Seq(Nat) /\ Ends(m) \in Seq(Nat)
         /\ Len(Starts(m)) = Len(m) /\ Len(Ends(m)) = Len(m)
         /\ Increasing(Starts(m)) /\ Increasing(Ends(m))
         /\ \A v \in Nat : (\E j \in 1..Len(m) : Starts(m)[j] = v)
                           <=> Covers(m, v) /\ (v = 0 \/ ~Covers(m, v - 1))
         /\ \A v \in Nat : (\E j \in 1..Len(m) : Ends(m)[j] = v)
                           <=> Covers(m, v) /\ ~Covers(m, v + 1)
<1> DEFINE n == Len(m)
<1>1. /\ n \in Nat /\ m \in Seq(Interval)
      /\ \A j \in 1..n : m[j][1] \in Nat /\ m[j][2] \in Nat /\ m[j][1] <= m[j][2]
  <2>1. m \in Seq(Interval)
    BY DEF Apart
  <2>2. \A e \in Interval : e[1] \in Nat /\ e[2] \in Nat /\ e[1] <= e[2]
    BY DEF Interval, Ordered
  <2>3. n \in Nat /\ \A j \in 1..n : m[j] \in Interval
    <3> HIDE DEF Interval
    <3> QED
      BY <2>1
  <2> HIDE DEF n, Interval
  <2> QED
    BY <2>1, <2>2, <2>3
<1>2. \A j, k \in 1..n : j < k => m[j][2] + 1 < m[k][1]
  BY DEF Apart
<1>3. \A v : Covers(m, v) <=> \E j \in 1..n : m[j][1] <= v /\ v <= m[j][2]
  BY DEF Covers
<1>4. Starts(m) = [j \in 1..n |-> m[j][1]] /\ Ends(m) = [j \in 1..n |-> m[j][2]]
  BY DEF Starts, Ends
<1> HIDE DEF n
<1>5. /\ Starts(m) \in Seq(Nat) /\ Len(Starts(m)) = n /\ Ends(m) \in Seq(Nat) /\ Len(Ends(m)) = n
      /\ \A j \in 1..n : Starts(m)[j] = m[j][1] /\ Ends(m)[j] = m[j][2]
  BY <1>1, <1>4
<1>6. \A j, k \in 1..n : j < k => m[j][1] < m[k][1] /\ m[j][2] < m[k][2]
  BY <1>1, <1>2
<1>7. Increasing(Starts(m)) /\ Increasing(Ends(m))
  <2>1. \A j, k \in 1..n : j < k => Starts(m)[j] < Starts(m)[k]
    BY <1>5, <1>6
  <2>2. \A j, k \in 1..n : j < k => Ends(m)[j] < Ends(m)[k]
    BY <1>5, <1>6
  <2> QED
    BY <1>5, <2>1, <2>2 DEF Increasing
<1>8. ASSUME NEW v \in Nat
      PROVE  (\E j \in 1..n : m[j][1] = v) <=> Covers(m, v) /\ (v = 0 \/ ~Covers(m, v - 1))
  <2>1. ASSUME NEW j \in 1..n, m[j][1] = v, NEW k \in 1..n, m[k][1] <= v - 1, v - 1 <= m[k][2]
        PROVE  FALSE
    <3>0. /\ m[k][1] \in Nat /\ m[k][2] \in Nat /\ m[j][2] \in Nat /\ m[j][1] = v
          /\ m[j][1] <= m[j][2] /\ m[k][1] <= v - 1 /\ v - 1 <= m[k][2]
      BY <1>1, <2>1
    <3>1. CASE j < k
      <4>1. m[j][2] + 1 < m[k][1]
        BY <1>2, <3>1
      <4> QED
        BY ONLY <3>0, <4>1, v \in Nat
    <3>2. CASE k < j
      <4>1. m[k][2] + 1 < m[j][1]
        BY <1>2, <3>2
      <4> QED
        BY ONLY <3>0, <4>1, v \in Nat
    <3>3. CASE j = k
      BY <1>1, <2>1, <3>3
    <3> QED
      BY <1>1, <3>1, <3>2, <3>3
  <2>2. ASSUME NEW j \in 1..n, m[j][1] = v PROVE Covers(m, v)
    BY <1>1, <1>3, <2>2
  <2>3. ASSUME Covers(m, v), v = 0 \/ ~Covers(m, v - 1)
        PROVE  \E j \in 1..n : m[j][1] = v
    <3>1. PICK j \in 1..n : m[j][1] <= v /\ v <= m[j][2]
      BY <1>3, <2>3
    <3>2. m[j][1] < v => Covers(m, v - 1) /\ v # 0
      BY <1>1, <1>3, <3>1
    <3> QED
      BY <1>1, <2>3, <3>1, <3>2
  <2> QED
    BY <1>3, <2>1, <2>2, <2>3
<1>9. ASSUME NEW v \in Nat
      PROVE  (\E j \in 1..n : m[j][2] = v) <=> Covers(m, v) /\ ~Covers(m, v + 1)
  <2>1. ASSUME NEW j \in 1..n, m[j][2] = v, NEW k \in 1..n, m[k][1] <= v + 1, v + 1 <= m[k][2]
        PROVE  FALSE
    <3>0. /\ m[k][1] \in Nat /\ m[k][2] \in Nat /\ m[j][1] \in Nat /\ m[j][2] = v
          /\ m[j][1] <= m[j][2] /\ m[k][1] <= v + 1 /\ v + 1 <= m[k][2]
      BY <1>1, <2>1
    <3>1. CASE j < k
      <4>1. m[j][2] + 1 < m[k][1]
        BY <1>2, <3>1
      <4> QED
        BY ONLY <3>0, <4>1, v \in Nat
    <3>2. CASE k < j
      <4>1. m[k][2] + 1 < m[j][1]
        BY <1>2, <3>2
      <4> QED
        BY ONLY <3>0, <4>1, v \in Nat
    <3>3. CASE j = k
      BY <1>1, <2>1, <3>3
    <3> QED
      BY <1>1, <3>1, <3>2, <3>3
  <2>2. ASSUME NEW j \in 1..n, m[j][2] = v PROVE Covers(m, v)
    BY <1>1, <1>3, <2>2
  <2>3. ASSUME Covers(m, v), ~Covers(m, v + 1)
        PROVE  \E j \in 1..n : m[j][2] = v
    <3>1. PICK j \in 1..n : m[j][1] <= v /\ v <= m[j][2]
      BY <1>3, <2>3
    <3>2. m[j][2] > v => Covers(m, v + 1)
      BY <1>1, <1>3, <3>1
    <3> QED
      BY <1>1, <2>3, <3>1, <3>2
  <2> QED
    BY <1>3, <2>1, <2>2, <2>3
<1>10. \A v \in Nat : /\ (\E j \in 1..n : Starts(m)[j] = v) <=> \E j \in 1..n : m[j][1] = v
                      /\ (\E j \in 1..n : Ends(m)[j] = v) <=> \E j \in 1..n : m[j][2] = v
  BY <1>5
<1>11. Len(m) = n
  BY DEF n
<1> QED
  BY <1>5, <1>7, <1>8, <1>9, <1>10, <1>11

LEMMA ApartUnique ==
  ASSUME NEW a, NEW b, Apart(a), Apart(b), \A v \in Nat : Covers(a, v) <=> Covers(b, v)
  PROVE  a = b
<1>1. /\ Starts(a) \in Seq(Nat) /\ Ends(a) \in Seq(Nat)
      /\ Len(Starts(a)) = Len(a) /\ Len(Ends(a)) = Len(a)
      /\ Increasing(Starts(a)) /\ Increasing(Ends(a))
      /\ \A v \in Nat : (\E j \in 1..Len(a) : Starts(a)[j] = v)
                        <=> Covers(a, v) /\ (v = 0 \/ ~Covers(a, v - 1))
      /\ \A v \in Nat : (\E j \in 1..Len(a) : Ends(a)[j] = v)
                        <=> Covers(a, v) /\ ~Covers(a, v + 1)
  BY ApartBounds
<1>2. /\ Starts(b) \in Seq(Nat) /\ Ends(b) \in Seq(Nat)
      /\ Len(Starts(b)) = Len(b) /\ Len(Ends(b)) = Len(b)
      /\ Increasing(Starts(b)) /\ Increasing(Ends(b))
      /\ \A v \in Nat : (\E j \in 1..Len(b) : Starts(b)[j] = v)
                        <=> Covers(b, v) /\ (v = 0 \/ ~Covers(b, v - 1))
      /\ \A v \in Nat : (\E j \in 1..Len(b) : Ends(b)[j] = v)
                        <=> Covers(b, v) /\ ~Covers(b, v + 1)
  BY ApartBounds
<1>3. \A v \in Nat : /\ (\E j \in 1..Len(a) : Starts(a)[j] = v)
                          <=> \E j \in 1..Len(b) : Starts(b)[j] = v
                     /\ (\E j \in 1..Len(a) : Ends(a)[j] = v)
                          <=> \E j \in 1..Len(b) : Ends(b)[j] = v
  <2> TAKE v \in Nat
  <2>1. /\ Covers(a, v) <=> Covers(b, v)
        /\ v # 0 => (Covers(a, v - 1) <=> Covers(b, v - 1))
        /\ Covers(a, v + 1) <=> Covers(b, v + 1)
    <3>1. v + 1 \in Nat /\ (v # 0 => v - 1 \in Nat)
      OBVIOUS
    <3> QED
      BY <3>1
  <2> QED
    BY <1>1, <1>2, <2>1
<1>4. /\ Within(Starts(a), Starts(b)) /\ Within(Starts(b), Starts(a))
      /\ Within(Ends(a), Ends(b)) /\ Within(Ends(b), Ends(a))
  <2>1. /\ \A j \in 1..Len(a) : Starts(a)[j] \in Nat /\ Ends(a)[j] \in Nat
        /\ \A j \in 1..Len(b) : Starts(b)[j] \in Nat /\ Ends(b)[j] \in Nat
    <3>1. ASSUME NEW s \in Seq(Nat) PROVE \A j \in 1..Len(s) : s[j] \in Nat
      OBVIOUS
    <3>2. \A j \in 1..Len(a) : Starts(a)[j] \in Nat
      BY <1>1, <3>1
    <3>3. \A j \in 1..Len(a) : Ends(a)[j] \in Nat
      BY <1>1, <3>1
    <3>4. \A j \in 1..Len(b) : Starts(b)[j] \in Nat
      BY <1>2, <3>1
    <3>5. \A j \in 1..Len(b) : Ends(b)[j] \in Nat
      BY <1>2, <3>1
    <3> QED
      BY <3>2, <3>3, <3>4, <3>5
  <2> QED
    BY <1>1, <1>2, <1>3, <2>1 DEF Within
<1>5. Starts(a) = Starts(b) /\ Ends(a) = Ends(b)
  BY <1>1, <1>2, <1>4, IncreasingUnique
<1>6. Len(a) = Len(b)
  BY <1>1, <1>2, <1>5
<1>7. ASSUME NEW m, Apart(m)
      PROVE  m = [j \in 1..Len(m) |-> <<Starts(m)[j], Ends(m)[j]>>]
  <2>1. m \in Seq(Interval)
    BY <1>7 DEF Apart
  <2>2. \A e \in Interval : e = <<e[1], e[2]>>
    BY DEF Interval
  <2> HIDE DEF Interval
  <2>3. m = [j \in 1..Len(m) |-> m[j]] /\ \A j \in 1..Len(m) : m[j] \in Interval
    BY <2>1
  <2>4. \A j \in 1..Len(m) : m[j] = <<Starts(m)[j], Ends(m)[j]>>
    BY <2>2, <2>3 DEF Starts, Ends
  <2> QED
    BY <2>3, <2>4
<1> QED
  BY <1>5, <1>6, <1>7

--------------------------------------------------------------------------------
\* The fold of MergeInterval, unfolded.
IsMerge(it, t) ==
  it = [s \in SUBSET DOMAIN t |->
          IF s = {} THEN <<>> ELSE MergeInterval(it[s \ {Max(s)}], t[Max(s)])]

LEMMA MergeIsChosen ==
  ASSUME NEW sel
  PROVE  LET t == CpuOrder(sel)
         IN  CanonicalCpus(sel) = (CHOOSE it : IsMerge(it, t))[DOMAIN t]
  BY Zenon DEF CanonicalCpus, CpuOrder, FoldLeft, MapThenFoldSet, IsMerge

LEMMA MergeStays ==
  ASSUME NEW m \in Seq(Pair), NEW x \in Pair
  PROVE  MergeInterval(m, x) \in Seq(Pair)
<1> DEFINE e == <<m[Len(m)][1], x[2]>>
<1>1. CASE m # <<>>
  <2>1. Len(m) \in 1..Len(m)
    BY <1>1
  <2>2. m[Len(m)] \in Pair
    BY <2>1
  <2>3. e \in Pair
    BY <2>2 DEF Pair
  <2>4. [m EXCEPT ![Len(m)] = e] \in Seq(Pair)
    <3> HIDE DEF e, Pair
    <3> QED
      BY <2>1, <2>3
  <2>5. Append(m, x) \in Seq(Pair)
    <3> HIDE DEF Pair
    <3> QED
      OBVIOUS
  <2> QED
    BY <2>4, <2>5 DEF MergeInterval
<1>2. CASE m = <<>>
  <2>1. MergeInterval(m, x) = Append(m, x)
    BY <1>2 DEF MergeInterval
  <2> HIDE DEF Pair
  <2> QED
    BY <2>1
<1> QED
  BY <1>1, <1>2

\* Taken step by step.
LEMMA MergeSteps ==
  ASSUME NEW sel, CpuOrder(sel) \in Seq(Pair)
  PROVE  LET t == CpuOrder(sel)
         IN  \E m : /\ m[0] = <<>> /\ CanonicalCpus(sel) = m[Len(t)]
                    /\ \A i \in 1..Len(t) : m[i] = MergeInterval(m[i - 1], t[i])
<1> DEFINE t == CpuOrder(sel)
           n == Len(t)
           D == 1..n
           Acc == Seq(Pair)
           g == [ai \in Acc \X D |-> MergeInterval(ai[1], t[ai[2]])]
<1>1. n \in Nat /\ DOMAIN t = D /\ \A i \in D : t[i] \in Pair
  <2> HIDE DEF t, Pair
  <2>1. t \in Seq(Pair)
    BY DEF t
  <2> QED
    BY <2>1
<1> HIDE DEF t, n
<1>2. D \in SUBSET Nat /\ IsFiniteSet(D)
  BY <1>1, FS_Interval
<1>3. g \in [Acc \X D -> Acc]
  <2> HIDE DEF Pair, D
  <2>1. \A ai \in Acc \X D : ai[1] \in Acc /\ ai[2] \in D
    OBVIOUS
  <2>2. \A ai \in Acc \X D : MergeInterval(ai[1], t[ai[2]]) \in Acc
    BY <1>1, <2>1, MergeStays
  <2> QED
    BY <2>2
<1>4. <<>> \in Acc
  OBVIOUS
<1>5. \A a \in Acc, i \in D : g[<<a, i>>] = MergeInterval(a, t[i])
  OBVIOUS
<1> HIDE DEF g, D, Acc
<1>6. PICK it : IsFoldOf(it, g, <<>>, D)
  BY <1>2, FoldExists
<1>7. \A s \in SUBSET D : it[s] \in Acc
  BY <1>2, <1>3, <1>4, <1>6, FoldStays
<1>8. \A s \in SUBSET D : s # {} => Max(s) \in D /\ s \ {Max(s)} \in SUBSET D
  BY <1>2, FS_Subset, MaxIsIn
<1>9. IsMerge(it, t)
  <2>1. it = [s \in SUBSET D |-> IF s = {} THEN <<>> ELSE g[<<it[s \ {Max(s)}], Max(s)>>]]
    BY <1>6 DEF IsFoldOf
  <2>2. \A s \in SUBSET D :
          s # {} => g[<<it[s \ {Max(s)}], Max(s)>>] = MergeInterval(it[s \ {Max(s)}], t[Max(s)])
    BY <1>5, <1>7, <1>8
  <2> QED
    BY <1>1, <2>1, <2>2 DEF IsMerge
<1> DEFINE f == CHOOSE f : IsMerge(f, t)
<1>10. IsMerge(f, t) /\ CanonicalCpus(sel) = f[D]
  <2>1. CanonicalCpus(sel) = f[D]
    BY <1>1, MergeIsChosen DEF t
  <2> QED
    BY <1>9, <2>1
<1> HIDE DEF f
<1>11. f = [s \in SUBSET D |->
              IF s = {} THEN <<>> ELSE MergeInterval(f[s \ {Max(s)}], t[Max(s)])]
  BY <1>1, <1>10 DEF IsMerge
<1>12. TakesLast(f, g, <<>>, Acc, n)
  <2>1. f[{}] = <<>>
    BY <1>11
  <2>2. \A s \in SUBSET D :
          s # {} /\ f[s \ {Max(s)}] \in Acc => f[s] = g[<<f[s \ {Max(s)}], Max(s)>>]
    BY <1>5, <1>8, <1>11
  <2> QED
    BY <2>1, <2>2 DEF TakesLast, D
<1> DEFINE m == [i \in 0..n |-> f[1..i]]
<1>13. Accumulates(m, g, <<>>, n) /\ \A i \in 0..n : m[i] \in Acc
  <2>1. g \in [Acc \X (1..n) -> Acc]
    BY <1>3 DEF D
  <2> QED
    BY ONLY <1>1, <1>4, <1>12, <2>1, FoldAccumulates
<1>14. m[n] = f[D]
  <2>1. n \in 0..n
    BY <1>1
  <2> QED
    BY <2>1 DEF D
<1>15. \A i \in 1..n : m[i] = MergeInterval(m[i - 1], t[i])
  <2> TAKE i \in 1..n
  <2>1. i - 1 \in 0..n /\ i \in D
    BY <1>1 DEF D
  <2> HIDE DEF m
  <2> QED
    BY <1>5, <1>13, <2>1 DEF Accumulates
<1> HIDE DEF m
<1>16. m[0] = <<>>
  BY <1>13 DEF Accumulates
<1> QED
  BY <1>10, <1>14, <1>15, <1>16 DEF t, n

Selects(sel, v) ==
  \E i \in 1..Len(sel) : Ascending(sel[i])[1] <= v /\ v <= Ascending(sel[i])[2]

\* The canonical form covers what the selector lists, in one way.
LEMMA CanonicalCovers ==
  ASSUME NEW sel \in CpuSelector
  PROVE  /\ Apart(CanonicalCpus(sel))
         /\ \A v \in Nat : Covers(CanonicalCpus(sel), v) <=> Selects(sel, v)
<1> DEFINE t == CpuOrder(sel)
           n == Len(t)
<1>1. /\ t \in Seq(Interval)
      /\ \A k \in 1..n : \E i \in 1..Len(sel) : Ascending(sel[i]) = t[k]
      /\ \A i \in 1..Len(sel) : \E k \in 1..n : t[k] = Ascending(sel[i])
      /\ \A k, l \in 1..n : k < l => t[k][1] <= t[l][1]
  BY CpusInOrder
<1> HIDE DEF t
<1>2. n \in Nat /\ \A i \in 1..n : t[i] \in Interval
  <2> HIDE DEF Interval
  <2> QED
    BY <1>1
<1>3. \A i \in 1..n : t[i][1] \in Nat /\ t[i][2] \in Nat
  BY <1>2 DEF Interval
<1>4. t \in Seq(Pair)
  <2>1. \A e \in Interval : e \in Pair
    BY DEF Interval, Pair
  <2> HIDE DEF Interval, Pair
  <2> QED
    BY <1>1, <2>1
<1>5. PICK m : /\ m[0] = <<>> /\ CanonicalCpus(sel) = m[n]
               /\ \A i \in 1..n : m[i] = MergeInterval(m[i - 1], t[i])
  BY <1>4, MergeSteps DEF t
<1> HIDE DEF n
<1> DEFINE Good(i) ==
             /\ Apart(m[i])
             /\ \A v \in Nat : Covers(m[i], v) <=> \E k \in 1..i : t[k][1] <= v /\ v <= t[k][2]
             /\ \A k \in 1..n : k > i => \A j \in 1..Len(m[i]) : m[i][j][1] <= t[k][1]
           P == {i \in 0..n : Good(i)}
<1>6. 0 \in P
  <2>1. Apart(<<>>)
    <3>1. <<>> \in Seq(Interval)
      OBVIOUS
    <3> QED
      BY <3>1 DEF Apart
  <2>2. \A v \in Nat : ~Covers(<<>>, v)
    BY DEF Covers
  <2>3. 0 \in 0..n /\ 1..0 = {}
    BY <1>2
  <2>4. Good(0)
    BY <1>5, <2>1, <2>2, <2>3
  <2> QED
    BY <2>3, <2>4
<1>7. ASSUME NEW i \in 0..(n - 1), i \in P PROVE i + 1 \in P
  <2> DEFINE k == i + 1
             x == t[k]
             new == MergeInterval(m[i], x)
  <2>1. k \in 1..n /\ k \in 0..n /\ k - 1 = i /\ k > i /\ i \in Nat
    BY <1>2
  <2>2. m[k] = new
    BY <1>5, <2>1
  <2>3. Good(i)
    BY <1>7
  <2>4. x \in Interval /\ x[1] \in Nat
    BY <1>2, <1>3, <2>1
  <2> HIDE DEF k
  <2>5. \A j \in 1..Len(m[i]) : m[i][j][1] <= x[1]
    BY <2>1, <2>3
  <2> HIDE DEF x
  <2>6. /\ Apart(new)
        /\ \A v \in Nat : Covers(new, v) <=> Covers(m[i], v) \/ (x[1] <= v /\ v <= x[2])
        /\ \A j \in 1..Len(new) : new[j][1] <= x[1]
    BY <2>3, <2>4, <2>5, Merged
  <2> HIDE DEF new
  <2>7. \A v \in Nat : Covers(new, v) <=> \E l \in 1..k : t[l][1] <= v /\ v <= t[l][2]
    <3>1. \A l \in 1..k : l \in 1..i \/ l = k
      BY <2>1
    <3>2. (\A l \in 1..i : l \in 1..k) /\ k \in 1..k
      BY <2>1
    <3> QED
      BY <2>3, <2>6, <3>1, <3>2 DEF x
  <2>8. \A l \in 1..n : l > k => \A j \in 1..Len(new) : new[j][1] <= t[l][1]
    <3> TAKE l \in 1..n
    <3> HAVE l > k
    <3> TAKE j \in 1..Len(new)
    <3>1. x[1] <= t[l][1]
      BY <1>1, <2>1 DEF x, n
    <3>2. new[j][1] <= x[1] /\ new[j][1] \in Nat
      <4>1. new \in Seq(Interval)
        BY <2>6 DEF Apart
      <4>2. new[j] \in Interval
        <5> HIDE DEF Interval
        <5> QED
          BY <4>1
      <4> QED
        BY <2>6, <4>2 DEF Interval
    <3> QED
      BY <1>3, <2>4, <3>1, <3>2
  <2>9. Good(k)
    BY <2>2, <2>6, <2>7, <2>8
  <2> QED
    BY <2>1, <2>9 DEF k
<1> HIDE DEF Good
<1>8. Good(n)
  <2>1. n \in 0..n
    BY <1>2
  <2>2. \A i \in 0..n : i \in P
    <3> HIDE DEF P
    <3> QED
      BY <1>2, <1>6, <1>7, InductionTo
  <2> QED
    BY <2>1, <2>2
<1>9. ASSUME NEW v \in Nat
      PROVE  (\E k \in 1..n : t[k][1] <= v /\ v <= t[k][2]) <=> Selects(sel, v)
  BY <1>1 DEF Selects, n
<1> QED
  BY <1>5, <1>8, <1>9 DEF Good

LEMMA CpusCompared ==
  ASSUME NEW a \in CpuSelector, NEW b \in CpuSelector
  PROVE  CanonicalCpus(a) = CanonicalCpus(b) <=> \A v \in Nat : Selects(a, v) <=> Selects(b, v)
<1>1. /\ Apart(CanonicalCpus(a)) /\ Apart(CanonicalCpus(b))
      /\ \A v \in Nat : Covers(CanonicalCpus(a), v) <=> Selects(a, v)
      /\ \A v \in Nat : Covers(CanonicalCpus(b), v) <=> Selects(b, v)
  BY CanonicalCovers
<1>2. ASSUME \A v \in Nat : Selects(a, v) <=> Selects(b, v)
      PROVE  CanonicalCpus(a) = CanonicalCpus(b)
  BY <1>1, <1>2, ApartUnique
<1> QED
  BY <1>1, <1>2

PidOrder(sel) == SortedBy(sel, <)

Has(m, v) == \E j \in 1..Len(m) : m[j] = v

LEMMA PidsInOrder ==
  ASSUME NEW sel \in PidSelector
  PROVE  LET t == PidOrder(sel)
         IN  /\ t \in Seq(Nat)
             /\ \A v \in Nat : Has(t, v) <=> Has(sel, v)
             /\ \A k, l \in 1..Len(t) : k < l => t[k] <= t[l]
<1> DEFINE n == Len(sel)
           R == {ij \in (1..n) \X (1..n) :
                   sel[ij[1]] < sel[ij[2]] \/ (sel[ij[1]] = sel[ij[2]] /\ ij[1] < ij[2])}
           t == PidOrder(sel)
<1>1. n \in Nat /\ DOMAIN sel = 1..n /\ sel \in Seq(Nat) /\ \A i \in 1..n : sel[i] \in Nat
  BY DEF PidSelector
<1> HIDE DEF n
<1>2. \A i, j \in 1..n : <<i, j>> \in R <=> sel[i] < sel[j] \/ (sel[i] = sel[j] /\ i < j)
  OBVIOUS
<1>3. t = Arrangement(sel, R)
  <2> DEFINE first(i) == {j \in DOMAIN sel : <<j, i>> \in R \/ j = i}
             place(i) == {j \in DOMAIN sel : sel[j] < sel[i] \/ (sel[j] = sel[i] /\ j =< i)}
  <2>1. \A i \in DOMAIN sel : first(i) = place(i)
    <3> TAKE i \in DOMAIN sel
    <3>1. ASSUME NEW j \in DOMAIN sel PROVE j \in first(i) <=> j \in place(i)
      <4>1. i \in 1..n /\ j \in 1..n /\ i \in Int /\ j \in Int
        BY <1>1
      <4>2. j =< i <=> j < i \/ j = i
        BY <4>1
      <4> HIDE DEF R
      <4> QED
        BY <1>2, <4>1, <4>2
    <3> QED
      BY <3>1
  <2>2. t = [k \in DOMAIN sel |-> sel[CHOOSE i \in DOMAIN sel : Cardinality(place(i)) = k]]
    BY Zenon DEF SortedBy, PidOrder
  <2> HIDE DEF first, place
  <2>3. \A k : (CHOOSE i \in DOMAIN sel : Cardinality(place(i)) = k)
               = CHOOSE i \in DOMAIN sel : Cardinality(first(i)) = k
    <3> TAKE k
    <3>1. \A i : i \in DOMAIN sel /\ Cardinality(place(i)) = k
                 <=> i \in DOMAIN sel /\ Cardinality(first(i)) = k
      BY <2>1
    <3> QED
      BY <3>1
  <2>4. t = [k \in DOMAIN sel |-> sel[CHOOSE i \in DOMAIN sel : Cardinality(first(i)) = k]]
    <3> DEFINE a(k) == sel[CHOOSE i \in DOMAIN sel : Cardinality(place(i)) = k]
               b(k) == sel[CHOOSE i \in DOMAIN sel : Cardinality(first(i)) = k]
    <3>1. t = [k \in DOMAIN sel |-> a(k)] /\ \A k \in DOMAIN sel : a(k) = b(k)
      BY <2>2, <2>3
    <3> HIDE DEF a, b, t
    <3>2. t = [k \in DOMAIN sel |-> b(k)]
      BY <3>1
    <3> QED
      BY <3>2 DEF b
  <2> QED
    BY <2>4 DEF first, Arrangement
<1> HIDE DEF R, t
<1>4. StrictOrder(R, Len(sel))
  <2>1. \A i \in 1..n : i \in Int /\ sel[i] \in Int
    BY <1>1
  <2>2. /\ \A i \in 1..n : <<i, i>> \notin R
        /\ \A i, j \in 1..n : i # j => <<i, j>> \in R \/ <<j, i>> \in R
        /\ \A i, j, k \in 1..n : <<i, j>> \in R /\ <<j, k>> \in R => <<i, k>> \in R
    BY <1>2, <2>1
  <2> QED
    BY <2>2 DEF StrictOrder, n
<1>5. t \in Seq(Nat) /\ Rearranged(sel, t, R)
  BY <1>1, <1>3, <1>4, ArrangementIsOrdered
<1>6. \A v \in Nat : Has(t, v) <=> Has(sel, v)
  BY <1>5 DEF Rearranged, Has
<1>7. ASSUME NEW k \in 1..Len(t), NEW l \in 1..Len(t), k < l PROVE t[k] <= t[l]
  <2>1. PICK i \in 1..n, j \in 1..n : t[k] = sel[i] /\ t[l] = sel[j] /\ <<i, j>> \in R
    BY ZenonT(40), <1>5, <1>7 DEF Rearranged, n
  <2> QED
    BY SMTT(40), <1>1, <1>2, <2>1
<1> QED
  BY <1>5, <1>6, <1>7 DEF t

LEMMA KeptOnce ==
  ASSUME NEW m \in Seq(Nat), Increasing(m), NEW x \in Nat, \A j \in 1..Len(m) : m[j] <= x
  PROVE  LET new == KeepOnce(m, x)
         IN  /\ new \in Seq(Nat) /\ Increasing(new)
             /\ \A v \in Nat : Has(new, v) <=> Has(m, v) \/ v = x
             /\ \A j \in 1..Len(new) : new[j] <= x
<1> DEFINE n == Len(m)
           new == KeepOnce(m, x)
<1>1. n \in Nat /\ \A j \in 1..n : m[j] \in Nat /\ m[j] <= x
  OBVIOUS
<1>2. \A j, k \in 1..n : j < k => m[j] < m[k]
  BY DEF Increasing
<1>3. CASE m # <<>> /\ Last(m) = x
  <2>1. new = m /\ n \in 1..n /\ m[n] = x
    BY <1>3 DEF KeepOnce, Last
  <2>2. \A v \in Nat : Has(m, v) <=> Has(m, v) \/ v = x
    BY <2>1 DEF Has
  <2> QED
    BY <1>1, <2>1, <2>2
<1>4. CASE ~(m # <<>> /\ Last(m) = x)
  <2>1. new = Append(m, x)
    BY <1>4 DEF KeepOnce
  <2> HIDE DEF new
  <2>2. /\ new \in Seq(Nat) /\ Len(new) = n + 1 /\ new[n + 1] = x
        /\ \A j \in 1..n : new[j] = m[j]
    BY <2>1
  <2>3. \A j \in 1..n : m[j] < x
    <3> TAKE j \in 1..n
    <3>1. n \in 1..n /\ m[n] # x
      BY <1>4 DEF Last
    <3>2. m[n] < x
      BY <1>1, <3>1
    <3>3. j = n \/ m[j] < m[n]
      BY <1>1, <1>2, <3>1
    <3> QED
      BY <1>1, <3>1, <3>2, <3>3
  <2> HIDE DEF n
  <2>4. \A j \in 1..(n + 1) : j = n + 1 \/ j \in 1..n
    BY <1>1
  <2>5. (\A j \in 1..n : j \in 1..(n + 1)) /\ n + 1 \in 1..(n + 1)
    BY <1>1
  <2>6. \A j, k \in 1..(n + 1) : j < k => new[j] < new[k]
    <3> TAKE j, k \in 1..(n + 1)
    <3> HAVE j < k
    <3>1. j \in 1..n
      BY <1>1
    <3> QED
      BY <1>2, <2>2, <2>3, <2>4, <3>1
  <2>7. Increasing(new)
    BY <2>2, <2>6 DEF Increasing
  <2>8. \A v \in Nat : Has(new, v) <=> Has(m, v) \/ v = x
    <3>1. \A v \in Nat : Has(m, v) <=> \E j \in 1..n : m[j] = v
      BY DEF Has, n
    <3>2. \A v \in Nat : Has(new, v) <=> \E j \in 1..(n + 1) : new[j] = v
      BY <2>2 DEF Has
    <3> QED
      BY <2>2, <2>4, <2>5, <3>1, <3>2
  <2>9. \A j \in 1..(n + 1) : new[j] <= x
    BY SMTT(40), <1>1, <2>2, <2>4
  <2> QED
    BY <2>2, <2>7, <2>8, <2>9 DEF new
<1> QED
  BY <1>3, <1>4

IsKept(it, t) ==
  it = [s \in SUBSET DOMAIN t |->
          IF s = {} THEN <<>> ELSE KeepOnce(it[s \ {Max(s)}], t[Max(s)])]

LEMMA KeptIsChosen ==
  ASSUME NEW sel
  PROVE  LET t == PidOrder(sel)
         IN  CanonicalPids(sel) = (CHOOSE it : IsKept(it, t))[DOMAIN t]
  BY Zenon DEF CanonicalPids, PidOrder, FoldLeft, MapThenFoldSet, IsKept

LEMMA KeptSteps ==
  ASSUME NEW sel, PidOrder(sel) \in Seq(Nat)
  PROVE  LET t == PidOrder(sel)
         IN  \E m : /\ m[0] = <<>> /\ CanonicalPids(sel) = m[Len(t)]
                    /\ \A i \in 1..Len(t) : m[i] = KeepOnce(m[i - 1], t[i])
<1> DEFINE t == PidOrder(sel)
           n == Len(t)
           D == 1..n
           Acc == Seq(Nat)
           g == [ai \in Acc \X D |-> KeepOnce(ai[1], t[ai[2]])]
<1>1. n \in Nat /\ DOMAIN t = D /\ \A i \in D : t[i] \in Nat
  <2> HIDE DEF t
  <2>1. t \in Seq(Nat)
    BY DEF t
  <2> QED
    BY <2>1
<1> HIDE DEF t, n
<1>2. D \in SUBSET Nat /\ IsFiniteSet(D)
  BY <1>1, FS_Interval
<1>3. g \in [Acc \X D -> Acc]
  <2> HIDE DEF D
  <2>1. \A ai \in Acc \X D : ai[1] \in Acc /\ ai[2] \in D
    OBVIOUS
  <2>2. \A ai \in Acc \X D : KeepOnce(ai[1], t[ai[2]]) \in Acc
    BY <1>1, <2>1 DEF KeepOnce
  <2> QED
    BY <2>2
<1>4. <<>> \in Acc
  OBVIOUS
<1>5. \A a \in Acc, i \in D : g[<<a, i>>] = KeepOnce(a, t[i])
  OBVIOUS
<1> HIDE DEF g, D, Acc
<1>6. PICK it : IsFoldOf(it, g, <<>>, D)
  BY <1>2, FoldExists
<1>7. \A s \in SUBSET D : it[s] \in Acc
  BY <1>2, <1>3, <1>4, <1>6, FoldStays
<1>8. \A s \in SUBSET D : s # {} => Max(s) \in D /\ s \ {Max(s)} \in SUBSET D
  BY <1>2, FS_Subset, MaxIsIn
<1>9. IsKept(it, t)
  <2>1. it = [s \in SUBSET D |-> IF s = {} THEN <<>> ELSE g[<<it[s \ {Max(s)}], Max(s)>>]]
    BY <1>6 DEF IsFoldOf
  <2>2. \A s \in SUBSET D :
          s # {} => g[<<it[s \ {Max(s)}], Max(s)>>] = KeepOnce(it[s \ {Max(s)}], t[Max(s)])
    BY <1>5, <1>7, <1>8
  <2> QED
    BY <1>1, <2>1, <2>2 DEF IsKept
<1> DEFINE f == CHOOSE f : IsKept(f, t)
<1>10. IsKept(f, t) /\ CanonicalPids(sel) = f[D]
  <2>1. CanonicalPids(sel) = f[D]
    BY <1>1, KeptIsChosen DEF t
  <2> QED
    BY <1>9, <2>1
<1> HIDE DEF f
<1>11. f = [s \in SUBSET D |->
              IF s = {} THEN <<>> ELSE KeepOnce(f[s \ {Max(s)}], t[Max(s)])]
  BY <1>1, <1>10 DEF IsKept
<1>12. TakesLast(f, g, <<>>, Acc, n)
  <2>1. f[{}] = <<>>
    BY <1>11
  <2>2. \A s \in SUBSET D :
          s # {} /\ f[s \ {Max(s)}] \in Acc => f[s] = g[<<f[s \ {Max(s)}], Max(s)>>]
    BY <1>5, <1>8, <1>11
  <2> QED
    BY <2>1, <2>2 DEF TakesLast, D
<1> DEFINE m == [i \in 0..n |-> f[1..i]]
<1>13. Accumulates(m, g, <<>>, n) /\ \A i \in 0..n : m[i] \in Acc
  <2>1. g \in [Acc \X (1..n) -> Acc]
    BY <1>3 DEF D
  <2> QED
    BY ONLY <1>1, <1>4, <1>12, <2>1, FoldAccumulates
<1>14. m[n] = f[D]
  <2>1. n \in 0..n
    BY <1>1
  <2> QED
    BY <2>1 DEF D
<1>15. \A i \in 1..n : m[i] = KeepOnce(m[i - 1], t[i])
  <2> TAKE i \in 1..n
  <2>1. i - 1 \in 0..n /\ i \in D
    BY <1>1 DEF D
  <2> HIDE DEF m
  <2> QED
    BY <1>5, <1>13, <2>1 DEF Accumulates
<1> HIDE DEF m
<1>16. m[0] = <<>>
  BY <1>13 DEF Accumulates
<1> QED
  BY <1>10, <1>14, <1>15, <1>16 DEF t, n

LEMMA CanonicalHas ==
  ASSUME NEW sel \in PidSelector
  PROVE  /\ CanonicalPids(sel) \in Seq(Nat) /\ Increasing(CanonicalPids(sel))
         /\ \A v \in Nat : Has(CanonicalPids(sel), v) <=> Has(sel, v)
<1> DEFINE t == PidOrder(sel)
           n == Len(t)
<1>1. /\ t \in Seq(Nat)
      /\ \A v \in Nat : Has(t, v) <=> Has(sel, v)
      /\ \A k, l \in 1..n : k < l => t[k] <= t[l]
  BY PidsInOrder
<1> HIDE DEF t
<1>2. n \in Nat /\ \A i \in 1..n : t[i] \in Nat
  BY <1>1
<1>3. PICK m : /\ m[0] = <<>> /\ CanonicalPids(sel) = m[n]
               /\ \A i \in 1..n : m[i] = KeepOnce(m[i - 1], t[i])
  BY <1>1, KeptSteps DEF t
<1> HIDE DEF n
<1> DEFINE Good(i) ==
             /\ m[i] \in Seq(Nat) /\ Increasing(m[i])
             /\ \A v \in Nat : Has(m[i], v) <=> \E k \in 1..i : t[k] = v
             /\ \A k \in 1..n : k > i => \A j \in 1..Len(m[i]) : m[i][j] <= t[k]
           P == {i \in 0..n : Good(i)}
<1>4. 0 \in P
  <2>1. <<>> \in Seq(Nat) /\ Increasing(<<>>)
    BY DEF Increasing
  <2>2. \A v \in Nat : ~Has(<<>>, v)
    BY DEF Has
  <2>3. 0 \in 0..n /\ 1..0 = {}
    BY <1>2
  <2>4. Good(0)
    BY <1>3, <2>1, <2>2, <2>3
  <2> QED
    BY <2>3, <2>4
<1>5. ASSUME NEW i \in 0..(n - 1), i \in P PROVE i + 1 \in P
  <2> DEFINE k == i + 1
             x == t[k]
             new == KeepOnce(m[i], x)
  <2>1. k \in 1..n /\ k \in 0..n /\ k - 1 = i /\ k > i /\ i \in Nat
    BY <1>2
  <2>2. m[k] = new
    BY <1>3, <2>1
  <2>3. Good(i)
    BY <1>5
  <2>4. x \in Nat
    BY <1>2, <2>1
  <2> HIDE DEF k
  <2>5. \A j \in 1..Len(m[i]) : m[i][j] <= x
    BY <2>1, <2>3
  <2> HIDE DEF x
  <2>6. /\ new \in Seq(Nat) /\ Increasing(new)
        /\ \A v \in Nat : Has(new, v) <=> Has(m[i], v) \/ v = x
        /\ \A j \in 1..Len(new) : new[j] <= x
    BY <2>3, <2>4, <2>5, KeptOnce
  <2> HIDE DEF new
  <2>7. \A v \in Nat : Has(new, v) <=> \E l \in 1..k : t[l] = v
    <3>1. \A l \in 1..k : l \in 1..i \/ l = k
      BY <2>1
    <3>2. (\A l \in 1..i : l \in 1..k) /\ k \in 1..k
      BY <2>1
    <3> QED
      BY <2>3, <2>6, <3>1, <3>2 DEF x
  <2>8. \A l \in 1..n : l > k => \A j \in 1..Len(new) : new[j] <= t[l]
    <3> TAKE l \in 1..n
    <3> HAVE l > k
    <3> TAKE j \in 1..Len(new)
    <3>1. x <= t[l]
      BY <1>1, <2>1 DEF x, n
    <3>2. new[j] <= x /\ new[j] \in Nat
      BY <2>6
    <3> QED
      BY <1>2, <2>4, <3>1, <3>2
  <2>9. Good(k)
    BY <2>2, <2>6, <2>7, <2>8
  <2> QED
    BY <2>1, <2>9 DEF k
<1> HIDE DEF Good
<1>6. Good(n)
  <2>1. n \in 0..n
    BY <1>2
  <2>2. \A i \in 0..n : i \in P
    <3> HIDE DEF P
    <3> QED
      BY <1>2, <1>4, <1>5, InductionTo
  <2> QED
    BY <2>1, <2>2
<1>7. \A v \in Nat : (\E k \in 1..n : t[k] = v) <=> Has(sel, v)
  BY <1>1 DEF Has, n
<1> QED
  BY <1>3, <1>6, <1>7 DEF Good

LEMMA PidsCompared ==
  ASSUME NEW a \in PidSelector, NEW b \in PidSelector
  PROVE  CanonicalPids(a) = CanonicalPids(b) <=> \A v \in Nat : Has(a, v) <=> Has(b, v)
<1> DEFINE x == CanonicalPids(a)
           y == CanonicalPids(b)
<1>1. /\ x \in Seq(Nat) /\ y \in Seq(Nat) /\ Increasing(x) /\ Increasing(y)
      /\ \A v \in Nat : Has(x, v) <=> Has(a, v)
      /\ \A v \in Nat : Has(y, v) <=> Has(b, v)
  BY CanonicalHas
<1> HIDE DEF x, y
<1>2. ASSUME \A v \in Nat : Has(a, v) <=> Has(b, v)
      PROVE  x = y
  <2>1. \A v \in Nat : Has(x, v) <=> Has(y, v)
    BY <1>1, <1>2
  <2>2. (\A i \in 1..Len(x) : x[i] \in Nat) /\ \A i \in 1..Len(y) : y[i] \in Nat
    BY <1>1
  <2>3. Within(x, y) /\ Within(y, x)
    BY <2>1, <2>2 DEF Within, Has
  <2> QED
    BY <1>1, <2>3, IncreasingUnique
<1>3. x = y => \A v \in Nat : Has(a, v) <=> Has(b, v)
  BY <1>1
<1> QED
  BY <1>2, <1>3 DEF x, y

\* Two selectors within the limits are found equivalent exactly when they list the same.
LEMMA ScopesCompared ==
  ASSUME NEW a, NEW b, ScopeShape(a), ScopeShape(b), Readable(a), Readable(b)
  PROVE  ScopesEquivalent(a, b) <=> Meaning(a) = Meaning(b)
<1> DEFINE covered(sel) == UNION {Ascending(e)[1] .. Ascending(e)[2] : e \in ToSet(sel)}
<1>1. ASSUME NEW sel \in CpuSelector, NEW v
      PROVE  v \in covered(sel) <=> v \in Nat /\ Selects(sel, v)
  <2>1. DOMAIN sel = 1..Len(sel) /\ \A i \in 1..Len(sel) : sel[i] \in Nat \X Nat
    BY DEF CpuSelector
  <2>2. \A i \in 1..Len(sel) : Ascending(sel[i])[1] \in Nat /\ Ascending(sel[i])[2] \in Nat
    <3> TAKE i \in 1..Len(sel)
    <3>1. sel[i][1] \in Nat /\ sel[i][2] \in Nat
      BY <2>1
    <3> QED
      BY <3>1 DEF Ascending
  <2>3. v \in covered(sel)
        <=> \E i \in 1..Len(sel) : v \in Ascending(sel[i])[1] .. Ascending(sel[i])[2]
    BY <2>1 DEF ToSet
  <2>4. \A i \in 1..Len(sel) :
          v \in Ascending(sel[i])[1] .. Ascending(sel[i])[2]
          <=> v \in Nat /\ Ascending(sel[i])[1] <= v /\ v <= Ascending(sel[i])[2]
    BY <2>2
  <2> QED
    BY <2>3, <2>4 DEF Selects
<1>2. ASSUME NEW x \in CpuSelector, NEW y \in CpuSelector
      PROVE  CanonicalCpus(x) = CanonicalCpus(y) <=> covered(x) = covered(y)
  <2>1. covered(x) = covered(y) <=> \A v : v \in covered(x) <=> v \in covered(y)
    OBVIOUS
  <2> HIDE DEF covered
  <2>2. (\A v : v \in covered(x) <=> v \in covered(y)) <=> \A v \in Nat : Selects(x, v) <=> Selects(y, v)
    BY <1>1
  <2> QED
    BY <2>1, <2>2, CpusCompared
<1>3. ASSUME NEW x \in PidSelector, NEW y \in PidSelector
      PROVE  CanonicalPids(x) = CanonicalPids(y) <=> ToSet(x) = ToSet(y)
  <2>1. ASSUME NEW s \in PidSelector
        PROVE  \A v : v \in ToSet(s) <=> v \in Nat /\ Has(s, v)
    BY DEF PidSelector, ToSet, Has
  <2>2. ToSet(x) = ToSet(y) <=> \A v : v \in ToSet(x) <=> v \in ToSet(y)
    OBVIOUS
  <2>3. (\A v : v \in ToSet(x) <=> v \in ToSet(y)) <=> \A v \in Nat : Has(x, v) <=> Has(y, v)
    BY <2>1
  <2> QED
    BY <2>2, <2>3, PidsCompared
<1>4. Meaning(a) = Meaning(b) => a.type = b.type
  BY DEF Meaning
<1>5. CASE a.type # b.type
  BY <1>4, <1>5 DEF ScopesEquivalent
<1>6. CASE a.type = b.type /\ a.type = "system"
  BY <1>6 DEF ScopesEquivalent, Meaning
<1>7. CASE a.type = b.type /\ a.type = "cpu"
  <2>1. a.sel \in CpuSelector /\ b.sel \in CpuSelector
    BY <1>7 DEF ScopeShape
  <2>2. ScopesEquivalent(a, b) <=> CanonicalCpus(a.sel) = CanonicalCpus(b.sel)
    BY <1>7 DEF ScopesEquivalent
  <2>3. Meaning(a) = [type |-> "cpu", set |-> covered(a.sel)]
        /\ Meaning(b) = [type |-> "cpu", set |-> covered(b.sel)]
    BY <1>7 DEF Meaning
  <2> HIDE DEF covered
  <2>4. Meaning(a) = Meaning(b) <=> covered(a.sel) = covered(b.sel)
    BY <2>3
  <2> QED
    BY <1>2, <2>1, <2>2, <2>4
<1>8. CASE a.type = b.type /\ a.type = "pid"
  <2>1. a.sel \in PidSelector /\ b.sel \in PidSelector
    BY <1>8 DEF ScopeShape
  <2>2. ScopesEquivalent(a, b) <=> CanonicalPids(a.sel) = CanonicalPids(b.sel)
    BY <1>8 DEF ScopesEquivalent
  <2>3. Meaning(a) = [type |-> "pid", set |-> ToSet(a.sel)]
        /\ Meaning(b) = [type |-> "pid", set |-> ToSet(b.sel)]
    BY <1>8 DEF Meaning
  <2>4. Meaning(a) = Meaning(b) <=> ToSet(a.sel) = ToSet(b.sel)
    BY <2>3
  <2> QED
    BY <1>3, <2>1, <2>2, <2>4
<1> QED
  BY <1>5, <1>6, <1>7, <1>8 DEF ScopeShape

--------------------------------------------------------------------------------
\* Every selector in force has passed parseDevkitConfig.
GoodScope(scope) == ScopeShape(scope) /\ Readable(scope)

Contents == RawConfigs \cup {None}

ScopesGood ==
  /\ configMap \in Contents /\ watch \in Seq(Contents)
  /\ GoodScope(config["topdown"].scope)
  /\ pc["topdown"] \notin {"off", "idle"} => GoodScope(args["topdown"].scope)
  /\ cache["topdown"] # None => GoodScope(cache["topdown"].labels.scope)

SelectorInvariant == ScopeInvariant /\ ReportInvariant /\ ScopesGood

LEMMA ConfigScopeGood ==
  ASSUME NEW raw \in RawConfigs, ValidConfig(raw)
  PROVE  GoodScope(CommandArgs(raw)["topdown"].scope)
<1> DEFINE t == raw.topdown
           scope == CommandArgs(raw)["topdown"].scope
<1>1. t.cpu \in CpuSelector /\ t.pid \in PidSelector
  BY DevkitAssumption DEF ValidConfig
<1>2. /\ t.cpu # <<>> => ReadableCpus(t.cpu)
      /\ t.pid # <<>> => ReadablePids(t.pid)
  BY DEF ValidConfig, ValidCpus, ValidPids
<1>3. scope = IF t.pid # <<>> THEN [type |-> "pid", sel |-> t.pid]
              ELSE IF t.cpu = <<>> THEN [type |-> "system", sel |-> <<>>]
              ELSE [type |-> "cpu", sel |-> t.cpu]
  BY DEF CommandArgs, TopdownArgs, CpuScope, System
<1> SUFFICES GoodScope(scope)
  OBVIOUS
<1> HIDE DEF t, scope
<1>4. CASE t.pid # <<>>
  BY <1>1, <1>2, <1>3, <1>4 DEF GoodScope, ScopeShape, Readable
<1>5. CASE t.pid = <<>> /\ t.cpu = <<>>
  BY <1>3, <1>5 DEF GoodScope, ScopeShape, Readable
<1>6. CASE t.pid = <<>> /\ t.cpu # <<>>
  BY <1>1, <1>2, <1>3, <1>6 DEF GoodScope, ScopeShape, Readable
<1> QED
  BY <1>4, <1>5, <1>6

LEMMA DefaultScopeGood == GoodScope(DefaultConfig["topdown"].scope)
  BY DEF DefaultConfig, System, GoodScope, ScopeShape, Readable

LEMMA ListedContents ==
  ASSUME NEW content \in Contents
  PROVE  Listed(content) \in Seq(Contents)
<1>1. <<>> \in Seq(Contents) /\ <<content>> \in Seq(Contents)
  OBVIOUS
<1> QED
  BY <1>1 DEF Listed

LEMMA SelectorInit == DevkitInit => SelectorInvariant
<1> SUFFICES ASSUME DevkitInit PROVE ScopesGood
  BY ScopeInit, ReportInit DEF SelectorInvariant
<1>1. configMap \in Contents /\ watch \in Seq(Contents)
  BY ListedContents DEF DevkitInit, Contents
<1>2. config = DefaultConfig /\ pc["topdown"] = "off" /\ cache["topdown"] = None
  BY DEF DevkitInit, Each, Collector
<1> QED
  BY <1>1, <1>2, DefaultScopeGood DEF ScopesGood

LEMMA SelectorStep == SelectorInvariant /\ [DevkitNext]_devkitVars => SelectorInvariant'
<1> SUFFICES ASSUME SelectorInvariant, [DevkitNext]_devkitVars PROVE ScopesGood'
  BY ScopeStep, ReportStep DEF SelectorInvariant
<1> DEFINE t == "topdown"
<1>0. t \in Collector /\ ScopesGood /\ Shapes
  BY DEF Collector, SelectorInvariant, ReportInvariant, LogInvariant
<1>1. CASE UNCHANGED devkitVars
  BY <1>0, <1>1 DEF devkitVars, apiVars, loopVars, ScopesGood
<1>2. ASSUME NEW content \in RawConfigs \cup {None}, EditConfigMap(content)
      PROVE  ScopesGood'
  <2>1. configMap' \in Contents /\ watch' \in Seq(Contents)
    <3>1. content \in Contents /\ watch \in Seq(Contents)
      BY <1>0, <1>2 DEF Contents, ScopesGood
    <3> HIDE DEF Contents
    <3>2. Append(watch, content) \in Seq(Contents)
      BY <3>1
    <3> QED
      BY <1>2, <3>1, <3>2 DEF EditConfigMap
  <2> QED
    BY <1>0, <1>2, <2>1 DEF EditConfigMap, loopVars, ScopesGood
<1>3. CASE Observe
  <2>1. watch # <<>> /\ watch \in Seq(Contents)
    BY <1>0, <1>3 DEF Observe, ScopesGood
  <2>2. Head(watch) \in Contents /\ Tail(watch) \in Seq(Contents)
    <3> HIDE DEF Contents
    <3> QED
      BY <2>1
  <2>3. GoodScope(config'[t].scope)
    <3>1. CASE Head(watch) # None /\ ValidConfig(Head(watch))
      <4>1. Head(watch) \in RawConfigs
        BY <2>2, <3>1 DEF Contents
      <4> QED
        BY <1>3, <3>1, <4>1, ConfigScopeGood DEF Observe
    <3>2. CASE ~(Head(watch) # None /\ ValidConfig(Head(watch)))
      BY <1>0, <1>3, <3>2 DEF Observe, ScopesGood
    <3> QED
      BY <3>1, <3>2
  <2> QED
    BY <1>0, <1>3, <2>2, <2>3 DEF Observe, loopVars, ScopesGood
<1>4. CASE Relist
  <2>1. <<configMap>> \in Seq(Contents)
    BY <1>0 DEF ScopesGood
  <2> QED
    BY <1>0, <1>4, <2>1 DEF Relist, loopVars, ScopesGood
<1>5. CASE Restart
  <2>1. configMap' \in Contents /\ watch' \in Seq(Contents)
    BY <1>0, <1>5, ListedContents DEF Restart, ScopesGood
  <2>2. config' = DefaultConfig /\ pc'[t] = "off" /\ cache'[t] = None
    BY <1>5 DEF Restart, Each, Collector
  <2> QED
    BY <2>1, <2>2, DefaultScopeGood DEF ScopesGood
<1>6. ASSUME NEW k \in Collector, Round(k) PROVE ScopesGood'
  <2>1. UNCHANGED <<configMap, watch, config>>
    BY <1>6 DEF Round, StartLoop, BeginRound, Acquire, CommandFails, CommandPrints, Finish,
                Publish, apiVars
  <2>2. CASE k # t
    <3>1. args'[t] = args[t]
      BY <1>0, <1>6, <2>2 DEF Round, StartLoop, BeginRound, Acquire, CommandFails,
                              CommandPrints, Finish, Publish, Shapes
    <3> QED
      BY <1>0, <1>6, <2>1, <2>2, <3>1, OthersKept DEF ScopesGood
  <2>3. CASE StartLoop(t)
    BY <1>0, <2>1, <2>3 DEF StartLoop, Shapes, ScopesGood
  <2>4. CASE BeginRound(t)
    BY <1>0, <2>1, <2>4 DEF BeginRound, Shapes, ScopesGood
  <2>5. CASE Acquire(t)
    BY <1>0, <2>1, <2>5 DEF Acquire, Shapes, ScopesGood
  <2>6. CASE CommandFails(t) \/ CommandPrints(t)
    <3>1. pc[t] = "running" /\ UNCHANGED <<args, cache>>
      BY <2>6 DEF CommandFails, CommandPrints, Finish
    <3> QED
      BY <1>0, <2>1, <3>1 DEF ScopesGood
  <2>7. CASE Publish(t)
    <3>1. /\ pc[t] = "publish" /\ pc'[t] = "idle"
          /\ cache'[t].labels.scope = args[t].scope
      BY <1>0, <2>7 DEF Publish, SuccessEntry, FailureEntry, Attempt, Shapes
    <3> QED
      BY <1>0, <2>1, <3>1 DEF ScopesGood
  <2> QED
    BY <1>6, <2>2, <2>3, <2>4, <2>5, <2>6, <2>7 DEF Round
<1> QED
  BY <1>1, <1>2, <1>3, <1>4, <1>5, <1>6 DEF DevkitNext

\* ScopeCheckIsExact: sorting and merging intervals (parseDevkitCPUIntervals), and sorting
\* and dropping repetitions (canonicalizeDevkitPIDSelector), give two selectors the same
\* form exactly when they list the same CPUs or processes, for every pair of selectors.
THEOREM ScopesAreCompared == DevkitSpec => []ScopeCheckIsExact
<1>1. SelectorInvariant => ScopeCheckIsExact
  <2> SUFFICES ASSUME SelectorInvariant, pc["topdown"] = "running",
                      NEW output \in Outputs["topdown"], HasReport(output),
                      Readable(Last(output).scope)
               PROVE  ParseError("topdown", output) = "scope"
                      <=> Meaning(Last(output).scope) # Meaning(args["topdown"].scope)
    BY DEF ScopeCheckIsExact
  <2> DEFINE a == args["topdown"].scope
             b == Last(output).scope
  <2>1. ScopeShape(a) /\ Readable(a)
    BY DEF SelectorInvariant, ScopesGood, GoodScope
  <2>2. ScopeShape(b) /\ Readable(b)
    BY DevkitAssumption DEF TopdownShape
  <2>3. ParseError("topdown", output) = "scope" <=> ~ScopesEquivalent(a, b)
    BY DevkitAssumption DEF ParseError, Errors
  <2> HIDE DEF a, b
  <2>4. ScopesEquivalent(a, b) <=> Meaning(a) = Meaning(b)
    BY <2>1, <2>2, ScopesCompared
  <2> QED
    BY <2>3, <2>4 DEF a, b
<1> QED
  BY SelectorInit, SelectorStep, <1>1, PTL DEF DevkitSpec

\* PublishedFitsScope: the numbers published under a scope are of the CPUs or processes it
\* lists, also when the configuration changes during the round (collectOnce,
\* parseDevkitTopdownReport).
THEOREM PublishedIsOfScope == DevkitSpec => []PublishedFitsScope
<1>1. SelectorInvariant => PublishedFitsScope
  <2> SUFFICES ASSUME SelectorInvariant, cache["topdown"] # None, cache["topdown"].data # None
               PROVE  Meaning(cache["topdown"].data.scope) = Meaning(cache["topdown"].labels.scope)
    BY DEF PublishedFitsScope
  <2> DEFINE a == cache["topdown"].labels.scope
             b == cache["topdown"].data.scope
  <2>1. ScopesEquivalent(a, b)
    BY DEF SelectorInvariant, ScopeInvariant, RoundFits
  <2>2. ScopeShape(a) /\ Readable(a)
    BY DEF SelectorInvariant, ScopesGood, GoodScope
  <2>3. ScopeShape(b)
    <3>1. Accepted("topdown", cache["topdown"].data)
      BY DEF SelectorInvariant, ReportInvariant, DataAccepted, Collector
    <3> QED
      BY <3>1, DevkitAssumption DEF Accepted, TopdownShape
  <2>4. Readable(b)
    BY <2>1 DEF ScopesEquivalent
  <2> HIDE DEF a, b
  <2> QED
    BY <2>1, <2>2, <2>3, <2>4, ScopesCompared DEF a, b
<1> QED
  BY SelectorInit, SelectorStep, <1>1, PTL DEF DevkitSpec
==================================================================================
