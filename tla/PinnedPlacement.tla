------------------------------ MODULE PinnedPlacement ------------------------------
(***************************************************************************)
(* What kunpeng-tap promises, in terms of what a node can observe: which   *)
(* CPUs each running container is confined to.  There are no supplies, no  *)
(* grants and no cache here; NriAgent is shown to implement this.          *)
(***************************************************************************)
EXTENDS TopologyPools, FiniteSetsExt

CONSTANTS
  Ctr,            \* containers; each runs at most once
  RequestOf,      \* RequestOf[c]: what c asks for
  SystemCtr,      \* containers of kube-system pods
  BestEffortCtr   \* containers the policy leaves alone

VARIABLES
  confined,       \* confined[c]: the CPUs c runs on, {} when it is not confined
  started,        \* containers that have been started
  serving         \* the agent answers the runtime's calls

placementVars == <<confined, started, serving>>

Inside(p) == {c \in Ctr : confined[c] # {} /\ confined[c] \subseteq CpusOf[p]}

\* What runs confined to pool p, or to a part of it, asks for.
Demand(p) == SumFunction([c \in Inside(p) |-> RequestOf[c].cpu])

MemDemand(p) == SumFunction([c \in Inside(p) |-> RequestOf[c].mem])

HasRoom(p, req) ==
  /\ Demand(p) + req.cpu <= TotalSharedCPU(p)
  /\ (EnforceMemory /\ req.mem > 0) => MemDemand(p) + req.mem <= MemTotal[p]

\* Pool p could take the request: p and all its ancestors below the root have
\* room for it.
CouldTake(p, req) == \A q \in Path[p] \ {Root} : HasRoom(q, req)

Init ==
  /\ confined = [c \in Ctr |-> {}]
  /\ started = {}
  /\ serving = TRUE

Start(c, cpus) ==
  /\ c \notin started
  /\ started' = started \cup {c}
  /\ confined' = [confined EXCEPT ![c] = cpus]
  /\ UNCHANGED serving

\* A container is confined to a pool that can take it,
StartInPool(c, p) ==
  /\ serving
  /\ c \notin SystemCtr \cup BestEffortCtr
  /\ p # Root
  /\ CouldTake(p, RequestOf[c])
  /\ Start(c, CpusOf[p])

\* to the whole machine when none of them can,
StartAtRoot(c) ==
  /\ serving
  /\ c \notin BestEffortCtr
  /\ c \in SystemCtr \/ \A p \in Pool \ {Root} : ~CouldTake(p, RequestOf[c])
  /\ Start(c, CpusOf[Root])

\* and to nothing only when the agent is not there, has nothing to do with
\* the container, or the machine as a whole has no room.
StartUnconfined(c) ==
  /\ \/ ~serving
     \/ c \in BestEffortCtr
     \/ ~HasRoom(Root, RequestOf[c])
  /\ Start(c, {})

End(c) ==
  /\ confined' = [confined EXCEPT ![c] = {}]
  /\ UNCHANGED <<started, serving>>

Serving ==
  /\ serving' \in BOOLEAN
  /\ UNCHANGED <<confined, started>>

Next ==
  \/ \E c \in Ctr :
       \/ \E p \in Pool : StartInPool(c, p)
       \/ StartAtRoot(c)
       \/ StartUnconfined(c)
       \/ End(c)
  \/ Serving

Spec == Init /\ [][Next]_placementVars

===================================================================================
