------------------------------- MODULE DockerProxy -------------------------------
(***************************************************************************)
(* kunpeng-tap as a proxy between dockershim and the docker daemon, with   *)
(* the topology-aware or the numa-aware policy behind it.                  *)
(*                                                                         *)
(* The handlers share one mutex, so each request is one action, together   *)
(* with what docker (external) does for it.  A request that fails, and a   *)
(* crash of the proxy, is a fault; there are at most MaxFaults.            *)
(*                                                                         *)
(* docker answers a refused create with a body that has no Id: the entry   *)
(* then goes into the cache under the empty ID.  It is kept in unnamed.    *)
(***************************************************************************)
EXTENDS TopologyAwarePolicy

CONSTANTS
  Sandbox,        \* pod sandboxes; each is used once
  Ctr,            \* container instances; each is used once
  UidOf,          \* UidOf[s]: UID of the pod of sandbox s
  SandboxOf,      \* SandboxOf[c]: the sandbox container c is created in
  GidOf,          \* GidOf[c]: pod UID and container name of c
  ReloadedGidOf,  \* ReloadedGidOf[c]: docker ID of the sandbox, and name
  SpecOf,         \* SpecOf[c]: what the pod of c says of it
  SystemCtr,      \* the containers of kube-system pods
  BestEffortCtr,  \* the containers whose cgroup parent is BestEffort
  NumaCpus,       \* NumaCpus[n]: the CPUs of NUMA node n, from 0 on
  NoCtr,          \* the value of unnamed when there is no such entry
  MaxFaults       \* bounds the refused requests and the crashes

ASSUME DockerObjects ==
  /\ SandboxOf \in [Ctr -> Sandbox]
  /\ GidOf \in [Ctr -> Gid] /\ ReloadedGidOf \in [Ctr -> Gid]
  /\ \A c, d \in Ctr : ReloadedGidOf[c] # GidOf[d]
  /\ \A c, d \in Ctr : ReloadedGidOf[c] = ReloadedGidOf[d] => GidOf[c] = GidOf[d]
  /\ \A c \in Ctr : IsContainer(SpecOf[c])
  /\ NoCtr \notin Ctr
  /\ MaxFaults \in Nat

ASSUME NumaNodes ==
  /\ NumaCpus \in [DOMAIN NumaCpus -> SUBSET CpusOf[Root]]
  /\ DOMAIN NumaCpus \subseteq Nat /\ 0 \in DOMAIN NumaCpus
  /\ \A m, n \in DOMAIN NumaCpus : m # n => NumaCpus[m] \cap NumaCpus[n] = {}
  /\ CpusOf[Root] \subseteq Nat

\* What each container asks for, as the hooks read it.
RequestOf == [c \in Ctr |-> Asked(SpecOf[c])]

VARIABLES
  policy,         \* the policy the proxy was started with
  sandboxes,      \* docker: state of each sandbox
  ctrs,           \* docker: state of each container
  cpuset,         \* docker: the cpuset a container was created with, {} if none
  up,             \* the proxy serves
  cachedPods,     \* the keys of cache.Pods
  cachedCtrs,     \* the keys of cache.Containers that are docker IDs
  unnamed,        \* the container under the key "", or NoCtr
  reloaded,       \* the cached pods that LoadStoreDocker inserted
  faults

dockerVars == <<sandboxes, ctrs, cpuset>>
cacheVars == <<cachedPods, cachedCtrs, unnamed, reloaded>>
vars == <<supply, grants, policy, dockerVars, up, cacheVars, faults>>

TypeOK ==
  /\ PolicyTypeOK
  /\ policy \in {"topology-aware", "numa-aware"}
  /\ sandboxes \in [Sandbox -> {"none", "running", "exited", "removed"}]
  /\ ctrs \in [Ctr -> {"none", "created", "unstarted", "running", "exited", "refused", "removed"}]
  /\ cpuset \in [Ctr -> SUBSET Nat]
  /\ up \in BOOLEAN
  /\ cachedPods \subseteq Sandbox /\ reloaded \subseteq cachedPods
  /\ cachedCtrs \subseteq Ctr
  /\ unnamed \in Ctr \cup {NoCtr}
  /\ faults \in 0..MaxFaults

Init ==
  /\ PolicyInit
  /\ policy \in {"topology-aware", "numa-aware"}
  /\ sandboxes = [s \in Sandbox |-> "none"]
  /\ ctrs = [c \in Ctr |-> "none"]
  /\ cpuset = [c \in Ctr |-> {}]
  /\ up = TRUE
  /\ cachedPods = {} /\ cachedCtrs = {} /\ reloaded = {}
  /\ unnamed = NoCtr
  /\ faults = 0

Fault == faults < MaxFaults /\ faults' = faults + 1

InState(S) == {c \in Ctr : ctrs[c] \in S}

\* A pod found after a restart has its sandbox's docker ID for a UID and no
\* namespace, and so have the hook requests of its containers.
IdOf(c) == IF SandboxOf[c] \in reloaded THEN ReloadedGidOf[c] ELSE GidOf[c]
IsSystem(c) == c \in SystemCtr /\ SandboxOf[c] \notin reloaded

--------------------------------------------------------------------------------
(***************************************************************************)
(* CleanCache, at the head of every create: the entries docker does not    *)
(* list as running or created leave the cache, without a hook.  When the   *)
(* list fails, docker seems empty.  The empty ID is a prefix of any ID: it *)
(* is stale only when nothing is listed, and goes with any other entry.    *)
(***************************************************************************)
\* A slip for the mutants: only running containers are asked for.
ListedRunning == InState({"running"})

Listed == InState({"running", "created", "unstarted"})

SomeListed == Listed # {} \/ \E s \in Sandbox : sandboxes[s] = "running"

Cleaned(listed, some) ==
  [ctrs    |-> cachedCtrs \cap listed,
   unnamed |-> IF some /\ cachedCtrs \subseteq listed THEN unnamed ELSE NoCtr]

\* A slip for the mutants: the cache is taken as it is.
KeepCache(list) == [ctrs |-> cachedCtrs, unnamed |-> unnamed]

CleanCache(list) ==
  IF list = "answered" THEN Cleaned(Listed, SomeListed) ELSE Cleaned({}, FALSE)

ListIs(list) == IF list = "failed" THEN Fault ELSE UNCHANGED faults

\* A create that puts nothing into the container cache leaves it cleaned.
LeavesCleanCache ==
  \E list \in {"answered", "failed"} :
    /\ ListIs(list)
    /\ cachedCtrs' = CleanCache(list).ctrs
    /\ unnamed' = CleanCache(list).unnamed

--------------------------------------------------------------------------------
(***************************************************************************)
(* Pod sandboxes are docker containers too.  kubelet stops the containers  *)
(* of a sandbox before it, and removes them before it.                     *)
(***************************************************************************)
RunSandbox(s) ==
  /\ up
  /\ sandboxes[s] = "none"
  /\ \A t \in Sandbox : UidOf[t] = UidOf[s] => sandboxes[t] # "running"
  /\ sandboxes' = [sandboxes EXCEPT ![s] = "running"]
  /\ cachedPods' = cachedPods \cup {s}
  /\ LeavesCleanCache
  /\ UNCHANGED <<policyVars, policy, ctrs, cpuset, up, reloaded>>

\* A sandbox is not in the container cache: its stop changes no record.
StopSandbox(s) ==
  /\ up
  /\ sandboxes[s] = "running"
  /\ \A c \in InState({"running"}) : SandboxOf[c] # s
  /\ sandboxes' = [sandboxes EXCEPT ![s] = "exited"]
  /\ UNCHANGED <<policyVars, policy, ctrs, cpuset, up, cacheVars, faults>>

\* The pod leaves the cache whether docker removes the sandbox or not.
DeleteSandbox(s) ==
  /\ up
  /\ sandboxes[s] = "exited"
  /\ \A c \in Ctr : SandboxOf[c] = s => ctrs[c] \in {"none", "refused", "removed"}
  /\ \/ sandboxes' = [sandboxes EXCEPT ![s] = "removed"] /\ UNCHANGED faults
     \/ Fault /\ UNCHANGED sandboxes
  /\ cachedPods' = cachedPods \ {s}
  /\ reloaded' = reloaded \ {s}
  /\ UNCHANGED <<policyVars, policy, ctrs, cpuset, up, cachedCtrs, unnamed>>

--------------------------------------------------------------------------------
(***************************************************************************)
(* The numa-aware policy: all of it is computed from the cache.            *)
(***************************************************************************)
Numa == DOMAIN NumaCpus
CpuTotal == MilliPerCpu * Cardinality(NumaCpus[0])

\* The cpuset written for node n supposes that the nodes have equally many CPUs,
\* numbered in a row; a cpuset belongs to the node with its first and last CPU.
BlockOf(n) ==
  LET size == Cardinality(NumaCpus[0]) IN (n * size)..((n + 1) * size - 1)

IsNumaNodeOf(cpus, n) ==
  cpus # {} /\ {Min(cpus), Max(cpus)} \subseteq NumaCpus[n]

\* What the entries left by CleanCache take from node n: quotas, of which all have the
\* same period, and shares as kubelet set them.  An entry without a period is skipped.
LinuxResourcesOf(c) == ResourcesOf(SpecOf[c])

IsCounted(c, n) == LinuxResourcesOf(c).period # 0 /\ IsNumaNodeOf(cpuset[c], n)

CountedOn(n, cache) ==
  {c \in cache.ctrs \cup ({cache.unnamed} \ {NoCtr}) : IsCounted(c, n)}
CpuUsed(n, cache) == SumFunction([c \in CountedOn(n, cache) |-> LinuxResourcesOf(c).quota])
CpuUsedByRequest(n, cache) ==
  SumFunction([c \in CountedOn(n, cache) |-> LinuxResourcesOf(c).shares])

\* The request, in rounded milli-CPUs, is added to the shares in use, 1024 to a CPU.
NumaCandidates(req, cache) ==
  IF req.cpu > CpuTotal \/ req.limit > CpuTotal THEN {}
  ELSE {n \in Numa : req.cpu * SharesPerCPU + CpuUsedByRequest(n, cache) * MilliPerCpu
                       <= CpuTotal * SharesPerCPU}

IsPreferredNode(req, cache, n) ==
  LET candidates == NumaCandidates(req, cache)
      Less(a, b) == \/ CpuUsed(a, cache) < CpuUsed(b, cache)
                    \/ CpuUsed(a, cache) = CpuUsed(b, cache) /\ a < b
  IN n \in candidates /\ \A m \in candidates \ {n} : Less(n, m)

--------------------------------------------------------------------------------
(***************************************************************************)
(* PreCreateContainerHook and its answer, the cpuset of the new container. *)
(***************************************************************************)
Place(c, cpus) == cpuset' = [cpuset EXCEPT ![c] = cpus]

TopologyHook(c) ==
  \E p \in Pool :
    /\ IsPoolFor(RequestOf[c], IsSystem(c), p)
    /\ IF SupplyAccepts(RequestOf[c], p)
       THEN AllocatePool(IdOf(c), RequestOf[c], p) /\ Place(c, CpusOf[p])
       ELSE UNCHANGED policyVars /\ Place(c, {})

NumaHook(c, cache) ==
  /\ UNCHANGED policyVars
  /\ \/ \E n \in Numa : IsPreferredNode(RequestOf[c], cache, n) /\ Place(c, BlockOf(n))
     \/ NumaCandidates(RequestOf[c], cache) = {} /\ Place(c, {})

PreCreateContainerHook(c, cache) ==
  IF c \in BestEffortCtr THEN UNCHANGED policyVars /\ Place(c, {})
  ELSE IF policy = "numa-aware" THEN NumaHook(c, cache)
  ELSE TopologyHook(c)

\* kubelet creates an instance when none of its name is about to run or runs.
MayCreate(c) ==
  /\ ctrs[c] = "none"
  /\ sandboxes[SandboxOf[c]] = "running"
  /\ \A d \in InState({"created", "running"}) : GidOf[d] # GidOf[c]

\* What the hook did stays when docker refuses.
CreateContainer(c, list) ==
  /\ up
  /\ MayCreate(c)
  /\ SandboxOf[c] \in cachedPods
  /\ PreCreateContainerHook(c, CleanCache(list))
  /\ \/ /\ ctrs' = [ctrs EXCEPT ![c] = "created"]
        /\ cachedCtrs' = CleanCache(list).ctrs \cup {c}
        /\ unnamed' = CleanCache(list).unnamed
        /\ ListIs(list)
     \/ /\ Fault
        /\ ctrs' = [ctrs EXCEPT ![c] = "refused"]
        /\ cachedCtrs' = CleanCache(list).ctrs
        /\ unnamed' = c
  /\ UNCHANGED <<policy, sandboxes, up, cachedPods, reloaded>>

\* Without a cached pod the create is refused, after the cache was cleaned.
RefuseContainer(c) ==
  /\ up
  /\ MayCreate(c)
  /\ SandboxOf[c] \notin cachedPods
  /\ ctrs' = [ctrs EXCEPT ![c] = "refused"]
  /\ LeavesCleanCache
  /\ UNCHANGED <<policyVars, policy, sandboxes, cpuset, up, cachedPods, reloaded>>

\* Passed through.  kubelet gives an instance up that does not start.
StartContainer(c) ==
  /\ ctrs[c] = "created"
  /\ \/ /\ up
        /\ ctrs' = [ctrs EXCEPT ![c] = "running"]
        /\ UNCHANGED faults
     \/ /\ IF up THEN Fault ELSE UNCHANGED faults
        /\ ctrs' = [ctrs EXCEPT ![c] = "unstarted"]
  /\ UNCHANGED <<policyVars, policy, sandboxes, cpuset, up, cacheVars>>

--------------------------------------------------------------------------------
(***************************************************************************)
(* Stopping: docker first, then the hook, for a container in the cache.    *)
(* A stop may come late, for an instance that has exited and was replaced. *)
(***************************************************************************)
PostStopContainerHook(c) ==
  IF policy = "topology-aware" /\ SandboxOf[c] \in cachedPods
  THEN ReleasePool(IdOf(c))
  ELSE UNCHANGED policyVars

Forget(c) ==
  IF c \in cachedCtrs
  THEN /\ PostStopContainerHook(c)
       /\ cachedCtrs' = cachedCtrs \ {c}
       /\ unnamed' = NoCtr
  ELSE UNCHANGED <<policyVars, cachedCtrs, unnamed>>

StopContainer(c) ==
  /\ up
  /\ ctrs[c] \in {"running", "exited"}
  /\ ctrs' = [ctrs EXCEPT ![c] = "exited"]
  /\ Forget(c)
  /\ UNCHANGED <<policy, sandboxes, cpuset, up, cachedPods, reloaded, faults>>

\* A body with "server error" or "No such container" ends the request.  Any other
\* error body is taken for 204, and the container forgotten though it runs.
FailStopContainer(c) ==
  /\ up
  /\ Fault
  /\ ctrs[c] = "running"
  /\ \/ Forget(c)
     \/ UNCHANGED <<policyVars, cachedCtrs, unnamed>>
  /\ UNCHANGED <<policy, dockerVars, up, cachedPods, reloaded>>

\* Deleting runs no hook, and the entry goes whether docker succeeds or not.
DeleteContainer(c) ==
  /\ up
  /\ ctrs[c] \in {"exited", "unstarted"}
  /\ \/ ctrs' = [ctrs EXCEPT ![c] = "removed"] /\ UNCHANGED faults
     \/ Fault /\ UNCHANGED ctrs
  /\ cachedCtrs' = cachedCtrs \ {c}
  /\ unnamed' = IF c \in cachedCtrs THEN NoCtr ELSE unnamed
  /\ UNCHANGED <<policyVars, policy, sandboxes, cpuset, up, cachedPods, reloaded>>

Exit(c) ==
  /\ ctrs[c] = "running"
  /\ ctrs' = [ctrs EXCEPT ![c] = "exited"]
  /\ UNCHANGED <<policyVars, policy, sandboxes, cpuset, up, cacheVars, faults>>

--------------------------------------------------------------------------------
(***************************************************************************)
(* The proxy's own life.  LoadStoreDocker lists what runs.  A container it *)
(* can inspect makes the start fail, because its hook request names no     *)
(* sandbox; so the proxy comes up when none runs, or none can be           *)
(* inspected, and there is nothing to rebuild from.                        *)
(***************************************************************************)
Crash ==
  /\ up
  /\ Fault
  /\ up' = FALSE
  /\ supply' = [p \in Pool |-> EmptySupply]
  /\ grants' = [g \in Gid |-> NoGrant]
  /\ cachedPods' = {} /\ cachedCtrs' = {} /\ reloaded' = {}
  /\ unnamed' = NoCtr
  /\ UNCHANGED <<policy, dockerVars>>

LoadStoreDocker ==
  /\ ~up
  /\ up' = TRUE
  /\ LET running == {s \in Sandbox : sandboxes[s] = "running"}
     IN \/ /\ InState({"running"}) = {}
           /\ cachedPods' = running
           /\ UNCHANGED faults
        \/ /\ Fault
           /\ cachedPods' \in SUBSET running
  /\ reloaded' = cachedPods'
  /\ UNCHANGED <<policyVars, policy, dockerVars, cachedCtrs, unnamed>>

--------------------------------------------------------------------------------
Next ==
  \/ \E s \in Sandbox : RunSandbox(s) \/ StopSandbox(s) \/ DeleteSandbox(s)
  \/ \E c \in Ctr :
       \/ \E list \in {"answered", "failed"} : CreateContainer(c, list)
       \/ RefuseContainer(c) \/ StartContainer(c)
       \/ StopContainer(c) \/ FailStopContainer(c) \/ DeleteContainer(c) \/ Exit(c)
  \/ Crash
  \/ LoadStoreDocker

Spec == Init /\ [][Next]_vars

--------------------------------------------------------------------------------
(***************************************************************************)
(* Properties.                                                             *)
(***************************************************************************)
Live == InState({"created", "running"})

\* "This helps address concurrency issues where Delete requests might be delayed
\* and Create requests arrive first during container restarts" (CleanCache): a
\* container that is about to run or runs pinned holds the grant of its id, on a
\* pool with its CPUs, whatever stop or delete of an earlier instance arrives
\* late.  After a fault this is promised of the containers in the cache.
PinnedHasGrant ==
  policy = "topology-aware" =>
    \A c \in Live : (cpuset[c] # {} /\ (faults = 0 \/ c \in cachedCtrs)) =>
      Held(IdOf(c)) /\ CpusOf[grants[IdOf(c)].pool] = cpuset[c]

\* The numa-aware policy keeps no books of its own.  With the cache as its only
\* record, the shares of the containers confined to a NUMA node are never more than
\* 1024 for each of its CPUs: rounded requests never let them past it.  Only a last
\* container without a CPU request may add its 2 shares, which were asked for as
\* nothing.  Containers without a CFS period are outside the books (GetNodeResources,
\* AllocateCPUSet).
NumaFits ==
  (policy = "numa-aware" /\ faults = 0) =>
    \A n \in Numa :
      SumFunction([c \in {d \in Live : IsCounted(d, n)} |-> LinuxResourcesOf(c).shares])
        <= SharesPerCPU * Cardinality(NumaCpus[n]) + MinShares
===================================================================================
