--------------------------------- MODULE NriAgent ---------------------------------
(***************************************************************************)
(* kunpeng-tap in NRI mode: the agent and its cache in front of the        *)
(* topology-aware policy, driven by the container runtime.                 *)
(*                                                                         *)
(* The runtime (external) delivers one event at a time and waits for the   *)
(* answer, so each handler is one action together with the runtime's own   *)
(* step.  While the agent is down the runtime goes on without it; when the *)
(* agent comes back, Synchronize lists every pod and container the runtime *)
(* has and the grants are rebuilt, one loop iteration per step.            *)
(***************************************************************************)
EXTENDS TopologyAwarePolicy

CONSTANTS
  Sandbox,        \* pod sandboxes; each is used once
  Ctr,            \* container instances; each is used once
  UidOf,          \* UidOf[s]: UID of the pod of sandbox s
  SandboxOf,      \* SandboxOf[c]: the sandbox container c is created in
  GidOf,          \* GidOf[c]: pod UID and container name of c
  SpecOf,         \* SpecOf[c]: what the pod of c says of it
  SystemCtr,      \* the containers of kube-system pods
  BestEffortCtr,  \* the containers whose cgroup parent is BestEffort
  PromptRemoval   \* a dead container is removed before its successor starts

ASSUME RuntimeObjects ==
  /\ SandboxOf \in [Ctr -> Sandbox]
  /\ GidOf \in [Ctr -> Gid]
  /\ \A c \in Ctr : IsContainer(SpecOf[c])
  /\ SystemCtr \subseteq Ctr /\ BestEffortCtr \subseteq Ctr
  /\ \A c, d \in Ctr : GidOf[c] = GidOf[d] => UidOf[SandboxOf[c]] = UidOf[SandboxOf[d]]
  /\ PromptRemoval \in BOOLEAN

\* What each container asks for, as the hooks read it.
RequestOf == [c \in Ctr |-> Asked(SpecOf[c])]

VARIABLES
  sandboxes,      \* runtime: state of each sandbox
  ctrs,           \* runtime: state of each container
  cpuset,         \* runtime: the cpuset a container was created with, {} if none
  agent,          \* "down", "syncing" (in Synchronize) or "up"
  cachedPods,     \* the keys of cache.Pods
  cachedCtrs,     \* the keys of cache.Containers
  toRebuild       \* containers RebuildAllocationsFromCache has yet to visit

runtimeVars == <<sandboxes, ctrs, cpuset>>
cacheVars == <<cachedPods, cachedCtrs>>
vars == <<supply, grants, sandboxes, ctrs, cpuset, agent, cachedPods, cachedCtrs, toRebuild>>

TypeOK ==
  /\ PolicyTypeOK
  /\ sandboxes \in [Sandbox -> {"none", "ready", "stopped", "removed"}]
  /\ ctrs \in [Ctr -> {"none", "running", "exited", "removed"}]
  /\ cpuset \in [Ctr -> SUBSET CpusOf[Root]]
  /\ agent \in {"down", "syncing", "up"}
  /\ cachedPods \subseteq Sandbox
  /\ cachedCtrs \subseteq Ctr
  /\ toRebuild \subseteq Ctr

Init ==
  /\ PolicyInit
  /\ sandboxes = [s \in Sandbox |-> "none"]
  /\ ctrs = [c \in Ctr |-> "none"]
  /\ cpuset = [c \in Ctr |-> {}]
  /\ agent = "up"
  /\ cachedPods = {}
  /\ cachedCtrs = {}
  /\ toRebuild = {}

Running(g) == {c \in Ctr : ctrs[c] = "running" /\ GidOf[c] = g}

\* No event is delivered while a Synchronize is in progress.
RuntimeMayAct == agent # "syncing" /\ UNCHANGED <<agent, toRebuild>>

--------------------------------------------------------------------------------
(***************************************************************************)
(* Pod sandboxes.                                                          *)
(***************************************************************************)
RunPodSandbox(s) ==
  /\ RuntimeMayAct
  /\ sandboxes[s] = "none"
  /\ \A t \in Sandbox : UidOf[t] = UidOf[s] => sandboxes[t] # "ready"
  /\ sandboxes' = [sandboxes EXCEPT ![s] = "ready"]
  /\ cachedPods' = IF agent = "up" THEN cachedPods \cup {s} ELSE cachedPods
  /\ UNCHANGED <<policyVars, ctrs, cpuset, cachedCtrs>>

\* The runtime stops the containers first; the agent only logs the event.
StopPodSandbox(s) ==
  /\ RuntimeMayAct
  /\ sandboxes[s] = "ready"
  /\ \A c \in Ctr : SandboxOf[c] = s => ctrs[c] # "running"
  /\ sandboxes' = [sandboxes EXCEPT ![s] = "stopped"]
  /\ UNCHANGED <<policyVars, ctrs, cpuset, cacheVars>>

RemovePodSandbox(s) ==
  /\ RuntimeMayAct
  /\ sandboxes[s] = "stopped"
  /\ \A c \in Ctr : SandboxOf[c] = s => ctrs[c] \in {"none", "removed"}
  /\ sandboxes' = [sandboxes EXCEPT ![s] = "removed"]
  /\ cachedPods' = IF agent = "up" THEN cachedPods \ {s} ELSE cachedPods
  /\ UNCHANGED <<policyVars, ctrs, cpuset, cachedCtrs>>

--------------------------------------------------------------------------------
(***************************************************************************)
(* Containers.  kubelet starts a container when no instance of it runs.    *)
(***************************************************************************)
MayCreate(c) ==
  /\ ctrs[c] = "none"
  /\ sandboxes[SandboxOf[c]] = "ready"
  /\ Running(GidOf[c]) = {}
  /\ PromptRemoval =>
       \A d \in Ctr : GidOf[d] = GidOf[c] => ctrs[d] # "exited"

Start(c, cpus) ==
  /\ ctrs' = [ctrs EXCEPT ![c] = "running"]
  /\ cpuset' = [cpuset EXCEPT ![c] = cpus]

\* The hook adjusts nothing: a BestEffort container, or a refused
\* allocation, whose error the policy manager logs and drops.
CreateUnpinned(c) ==
  /\ \/ c \in BestEffortCtr
     \/ \E p \in Pool :
          /\ IsPoolFor(RequestOf[c], c \in SystemCtr, p)
          /\ ~SupplyAccepts(RequestOf[c], p)
  /\ Start(c, {})
  /\ UNCHANGED policyVars

CreatePinned(c) ==
  /\ c \notin BestEffortCtr
  /\ \E p \in Pool :
       /\ IsPoolFor(RequestOf[c], c \in SystemCtr, p)
       /\ SupplyAccepts(RequestOf[c], p)
       /\ AllocatePool(GidOf[c], RequestOf[c], p)
       /\ Start(c, CpusOf[p])

CreateContainer(c) ==
  /\ RuntimeMayAct
  /\ agent = "up"
  /\ MayCreate(c)
  /\ CreateUnpinned(c) \/ CreatePinned(c)
  /\ cachedPods' = cachedPods \cup {SandboxOf[c]}
  /\ cachedCtrs' = cachedCtrs \cup {c}
  /\ UNCHANGED sandboxes

CreateContainerUnseen(c) ==
  /\ RuntimeMayAct
  /\ agent = "down"
  /\ MayCreate(c)
  /\ Start(c, {})
  /\ UNCHANGED <<policyVars, sandboxes, cacheVars>>

\* PostStopContainerHook: by container ID to the cached container, to its
\* cached pod, and from pod UID and container name to the grant.
PostStopContainerHook(c) ==
  IF c \in cachedCtrs /\ SandboxOf[c] \in cachedPods
  THEN ReleasePool(GidOf[c])
  ELSE UNCHANGED policyVars

\* The container dies or is killed.
StopContainer(c) ==
  /\ RuntimeMayAct
  /\ ctrs[c] = "running"
  /\ ctrs' = [ctrs EXCEPT ![c] = "exited"]
  /\ IF agent = "up" THEN PostStopContainerHook(c) ELSE UNCHANGED policyVars
  /\ UNCHANGED <<sandboxes, cpuset, cacheVars>>

\* PreRemoveContainerHook runs the policies' PostStopContainerHook again.
RemoveContainer(c) ==
  /\ RuntimeMayAct
  /\ ctrs[c] = "exited"
  /\ ctrs' = [ctrs EXCEPT ![c] = "removed"]
  /\ IF agent = "up"
     THEN /\ PostStopContainerHook(c)
          /\ cachedCtrs' = cachedCtrs \ {c}
     ELSE UNCHANGED <<policyVars, cachedCtrs>>
  /\ UNCHANGED <<sandboxes, cpuset, cachedPods>>

--------------------------------------------------------------------------------
(***************************************************************************)
(* The agent's own life.  Nothing is persisted.                            *)
(***************************************************************************)
Crash ==
  /\ agent # "down"
  /\ agent' = "down"
  /\ supply' = [p \in Pool |-> EmptySupply]
  /\ grants' = [g \in Gid |-> NoGrant]
  /\ cachedPods' = {}
  /\ cachedCtrs' = {}
  /\ toRebuild' = {}
  /\ UNCHANGED runtimeVars

AfterRebuild(rest) == IF rest = {} THEN "up" ELSE "syncing"

Synchronize ==
  /\ agent = "down"
  /\ cachedPods' = {s \in Sandbox : sandboxes[s] \in {"ready", "stopped"}}
  /\ cachedCtrs' = {c \in Ctr : ctrs[c] \in {"running", "exited"}}
  /\ toRebuild' = cachedCtrs'
  /\ agent' = AfterRebuild(toRebuild')
  /\ UNCHANGED <<policyVars, runtimeVars>>

\* A slip for the mutants: containers that have exited are rebuilt too.
IsRebuiltAnyState(c) == c \notin SystemCtr /\ cpuset[c] # {}

\* Only running containers outside kube-system that have a cpuset count.
IsRebuilt(c) ==
  /\ ctrs[c] = "running"
  /\ c \notin SystemCtr
  /\ cpuset[c] # {}

RebuildNext(c) ==
  /\ agent = "syncing"
  /\ c \in toRebuild
  /\ IF IsRebuilt(c)
     THEN \E p \in Pool :
            /\ IsNodeByCPUSet(cpuset[c], p)
            /\ RebuildContainerAllocation(GidOf[c], ResourcesOf(SpecOf[c]), p)
     ELSE UNCHANGED policyVars
  /\ toRebuild' = toRebuild \ {c}
  /\ agent' = AfterRebuild(toRebuild')
  /\ UNCHANGED <<runtimeVars, cacheVars>>

--------------------------------------------------------------------------------
Next ==
  \/ \E s \in Sandbox : RunPodSandbox(s) \/ StopPodSandbox(s) \/ RemovePodSandbox(s)
  \/ \E c \in Ctr : CreateContainer(c) \/ CreateContainerUnseen(c)
  \/ \E c \in Ctr : StopContainer(c) \/ RemoveContainer(c)
  \/ Crash
  \/ Synchronize
  \/ \E c \in Ctr : RebuildNext(c)

Spec == Init /\ [][Next]_vars

--------------------------------------------------------------------------------
(***************************************************************************)
(* Properties.                                                             *)
(***************************************************************************)
Pinned == {c \in Ctr : ctrs[c] = "running" /\ cpuset[c] # {}}

\* The promise of PinnedPlacement: placements are judged by what really runs
\* confined where, of which the supplies are only the agent's record.
Placement == INSTANCE PinnedPlacement WITH
  confined <- [c \in Ctr |-> IF ctrs[c] = "running" THEN cpuset[c] ELSE {}],
  started <- {c \in Ctr : ctrs[c] # "none"},
  serving <- agent = "up"

\* The agent implements it, whatever the runtime does and whenever the agent
\* restarts, as long as dead containers are removed promptly.
ImplementsPlacement == Placement!Spec

\* Every container that runs confined to a pool holds the grant of its id on
\* a pool with those CPUs, so its capacity is not handed out twice.  (After a
\* restart kube-system containers hold none: the rebuild skips them.)
PinnedHasGrant ==
  agent = "up" =>
    \A c \in Pinned \ SystemCtr :
      /\ Held(GidOf[c])
      /\ CpusOf[grants[GidOf[c]].pool] = cpuset[c]

\* Every grant belongs to a container that runs: capacity comes back when a
\* container stops, whatever happened to its pod and sandbox in between.
GrantHasRunningCtr ==
  \A g \in Gid : Held(g) => Running(g) # {}

\* A grant is that of the container running under its id: what its creation asked
\* for or what a rebuild reads from the runtime, which is that up to the differences
\* Recovers lists; it is never a grant left by an earlier instance or by another
\* container (PreCreateContainerHook, RebuildContainerAllocation, which leaves
\* kube-system containers out).
GrantMatchesRequest ==
  \A g \in Gid : \A c \in Running(g) : Held(g) =>
    LET created == GrantOf(RequestOf[c], grants[g].pool)
    IN \/ grants[g] = created
       \/ c \notin SystemCtr /\ Recovers(SpecOf[c], created, grants[g])

\* PreRemoveContainerHook cleans up the state of the container that is removed:
\* the grant of an id under which a container still runs is left alone.
RemovalSparesRunning ==
  [][\A c \in Ctr : RemoveContainer(c) =>
       \A g \in Gid : Running(g) # {} => grants'[g] = grants[g]]_vars

\* An allocation never pushes a pool below the root over its CPUs.  Only the
\* rebuild, which checks no capacity, may.
AllocationWithinCapacity ==
  [][\A p \in Pool \ {Root} :
       (agent = "up" /\ supply'[p].byRequest > supply[p].byRequest)
       => supply'[p].byRequest <= TotalSharedCPU(p)]_vars
===================================================================================
