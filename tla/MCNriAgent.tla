-------------------------------- MODULE MCNriAgent --------------------------------
(***************************************************************************)
(* The NRI agent on the machines of MCTopology.                            *)
(*                                                                         *)
(* Pod 1 has container a, whose second instance runs in a new sandbox of   *)
(* the same pod, and container c.  Pod 2 has container b, restarted in     *)
(* place.  Pod 3 is of kube-system, pod 4 is BestEffort.                   *)
(***************************************************************************)
EXTENDS NriAgent, MCTopology, TLC

CONSTANTS s1, s2, s3, s4, s5, a1, a2, b1, b2, c1, k1, e1, ga, gb, gc, gk, ge

AllSandboxOf ==
  (a1 :> s1) @@ (a2 :> s2) @@ (b1 :> s3) @@ (b2 :> s3) @@ (c1 :> s1) @@
  (k1 :> s4) @@ (e1 :> s5)
AllGidOf ==
  (a1 :> ga) @@ (a2 :> ga) @@ (b1 :> gb) @@ (b2 :> gb) @@ (c1 :> gc) @@
  (k1 :> gk) @@ (e1 :> ge)
AllUidOf == (s1 :> 1) @@ (s2 :> 1) @@ (s3 :> 2) @@ (s4 :> 3) @@ (s5 :> 4)

MCSandboxOf == [c \in Ctr |-> AllSandboxOf[c]]
MCGidOf == [c \in Ctr |-> AllGidOf[c]]
MCUidOf == [s \in Sandbox |-> AllUidOf[s]]

\* On the clusters machine a needs most of a NUMA node, b and c fit in a cluster:
\* once one of these sits in a cluster of the first NUMA node, a has to go to the
\* second, and while a is on the first no cluster of it may be given away.  The
\* limits of a and c read differently when they are rebuilt: kubelet was restarted
\* with another --cpu-cfs-quota between them, and 999 milli-CPUs are read as 998.
MCSpecOf == [c \in Ctr |->
  CASE c \in {a1, a2} -> Unlimited("guaranteed", 1500, 1500, 1024, NoGpu)
    [] c = c1 -> Container("guaranteed", 999, 999, 1024, NoGpu)
    [] c \in {b1, b2} -> Container("burstable", 1000, 2000, 2048, NoGpu)
    [] c = k1 -> Container("burstable", 500, 0, 0, NoGpu)
    [] c = e1 -> Container("besteffort", 0, 0, 0, NoGpu)]
===================================================================================
