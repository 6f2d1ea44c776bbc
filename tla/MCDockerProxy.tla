------------------------------ MODULE MCDockerProxy ------------------------------
(***************************************************************************)
(* The docker proxy on the machine of MCTopology with clusters, which has  *)
(* two NUMA nodes of two CPUs.                                             *)
(*                                                                         *)
(* Container a is restarted in place and in a second sandbox of its pod;   *)
(* containers c and k share the first sandbox.                             *)
(***************************************************************************)
EXTENDS DockerProxy, MCTopology, TLC

CONSTANTS s1, s2, a1, a2, a3, c1, ga, gc, ra1, ra2, rc

MCSandboxOf == (a1 :> s1) @@ (a2 :> s1) @@ (a3 :> s2) @@ (c1 :> s1)
MCGidOf == (a1 :> ga) @@ (a2 :> ga) @@ (a3 :> ga) @@ (c1 :> gc)
MCReloadedGidOf == (a1 :> ra1) @@ (a2 :> ra1) @@ (a3 :> ra2) @@ (c1 :> rc)
MCUidOf == (s1 :> 1) @@ (s2 :> 1)
MCNumaCpus == (0 :> {0, 1}) @@ (1 :> {2, 3})

\* Without limits the two NUMA nodes are equally used, and the first is taken while
\* it has room: 1500 and 504 milli-CPUs, 1536 and 516 shares, are a little too much
\* for it.  The last instance of a is created by a kubelet that enforces no limits.
MCSpecOf == [c \in Ctr |->
  CASE c = c1 -> Container("burstable", 504, 0, 2048, NoGpu)
    [] c = a3 -> Unlimited("burstable", 1500, 2000, 1024, NoGpu)
    [] OTHER -> Container("burstable", 1500, 0, 1024, NoGpu)]
===================================================================================
