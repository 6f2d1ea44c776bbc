----------------------------- MODULE MCContainerdProxy -----------------------------
(***************************************************************************)
(* The containerd proxy in front of the machines of MCTopology.            *)
(*                                                                         *)
(* Pod 1 has container a, which may be restarted, and pod 2 container b.   *)
(***************************************************************************)
EXTENDS ContainerdProxy, MCTopology, TLC

CONSTANTS s1, s2, a1, a2, b1, ga, gb

AllSandboxOf == (a1 :> s1) @@ (a2 :> s1) @@ (b1 :> s2)
AllGidOf == (a1 :> ga) @@ (a2 :> ga) @@ (b1 :> gb)

MCSandboxOf == [c \in Ctr |-> AllSandboxOf[c]]
MCGidOf == [c \in Ctr |-> AllGidOf[c]]

\* On the clusters machine a needs most of a NUMA node and b fits in a cluster, so
\* that a and b compete once an instance of a has gone without being stopped.
MCSpecOf == [c \in Ctr |->
  CASE c \in {a1, a2} -> Container("burstable", 1500, 2000, 1024, NoGpu)
    [] c = b1 -> Container("burstable", 1000, 2000, 2048, NoGpu)]
===================================================================================
