--------------------------- MODULE MCTopologyDiscovery ---------------------------
(***************************************************************************)
(* Machines of four CPUs: any assignment of CPUs to two nodes and to two   *)
(* packages, which need not be 0 and 1; a die number on the second half;   *)
(* one CPU offline; a node without CPUs or without directory; clusters     *)
(* within the nodes.                                                       *)
(***************************************************************************)
EXTENDS TopologyDiscovery

MCCpu == 0..3

MCClusterLists ==
  {[c \in MCCpu |-> NoCluster],
   [c \in MCCpu |-> IF c < 2 THEN {0, 1} ELSE {2, 3}],
   [c \in MCCpu |-> {c}]}

MCMachine ==
  {m \in [numas : {{0}, {0, 1}, {0, 1, 2}},
          node : [MCCpu -> {0, 1}] \cup {[c \in MCCpu |-> IF c = 3 THEN NoLink ELSE 0]},
          package : [MCCpu -> {0, 1}] \cup [MCCpu -> {2, 5}] \cup {[c \in MCCpu |-> 0 - 1]},
          die : {[c \in MCCpu |-> 0], [c \in MCCpu |-> c % 2], [c \in MCCpu |-> c \div 2]},
          online : {MCCpu, MCCpu \ {3}, MCCpu \ {0}},
          clusterList : MCClusterLists,
          clusterModel : BOOLEAN, symmetric : BOOLEAN, clusterAffinity : BOOLEAN] :
     /\ m.clusterModel => m.symmetric
     /\ m.numas = {0} => m.clusterList[0] = NoCluster /\ m.symmetric
     /\ m.clusterAffinity \/ m.clusterList[0] = NoCluster
     /\ \A c, d \in MCCpu :
          (m.clusterList[c] # NoCluster /\ d \in m.clusterList[c]) => m.node[c] = m.node[d]}
===================================================================================
