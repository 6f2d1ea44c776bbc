----------------------------- MODULE NriAgent_proofs -----------------------------
(***************************************************************************)
(* Theorems about the NRI agent, for every machine, every set of pods and  *)
(* containers and every behaviour of the runtime that NriAgent allows.     *)
(***************************************************************************)
EXTENDS NriAgent, TopologyAwarePolicy_proofs

USE PoolsAreNodeIDs, PathsLeadToRoot, PoolResources, NoGrantIsNoGrant, RuntimeObjects

\* What the hooks read for a container is a request.
LEMMA RequestsOfCtrs == \A c \in Ctr : IsRequest(RequestOf[c])
  BY ReadAmountsAreNat DEF RequestOf

USE RequestsOfCtrs

\* What a rebuild makes of a container is a grant on the pool it is given.
LEMMA RebuiltGrant ==
  ASSUME NEW c \in Ctr, NEW p \in Pool
  PROVE  /\ GrantFromContainer(ResourcesOf(SpecOf[c]), p) \in Grant
         /\ GrantFromContainer(ResourcesOf(SpecOf[c]), p) # NoGrant
         /\ GrantFromContainer(ResourcesOf(SpecOf[c]), p).pool = p
<1>1. GrantFromContainer(ResourcesOf(SpecOf[c]), p) \in Grant
  BY RebuiltGrantType
<1> QED
  BY <1>1 DEF GrantFromContainer, GrantOf

--------------------------------------------------------------------------------
(***************************************************************************)
(* The type invariant.                                                     *)
(***************************************************************************)

\* PostStopContainerHook keeps the policy's state well typed.
LEMMA HookTypeOK ==
  ASSUME PolicyTypeOK, NEW c \in Ctr, PostStopContainerHook(c)
  PROVE  PolicyTypeOK'
<1>1. CASE ReleasePool(GidOf[c])
  BY <1>1, ReleaseTypeOK
<1>2. CASE UNCHANGED policyVars
  BY <1>2 DEF PolicyTypeOK, policyVars
<1> QED
  BY <1>1, <1>2 DEF PostStopContainerHook

\* A container is started pinned to a pool, which then holds a grant for it,
\* or unpinned.
LEMMA CreateCases ==
  ASSUME NEW c \in Ctr, CreateUnpinned(c) \/ CreatePinned(c)
  PROVE  \/ Start(c, {}) /\ UNCHANGED policyVars
         \/ \E p \in Pool :
              /\ IsPoolFor(RequestOf[c], c \in SystemCtr, p)
              /\ AllocatePool(GidOf[c], RequestOf[c], p)
              /\ Start(c, CpusOf[p])
  BY DEF CreateUnpinned, CreatePinned

\* Every step keeps the state well typed.
LEMMA StepTypeOK == TypeOK /\ [Next]_vars => TypeOK'
<1> SUFFICES ASSUME TypeOK, [Next]_vars PROVE TypeOK'
  OBVIOUS
<1> USE DEF TypeOK, RuntimeMayAct, cacheVars, runtimeVars
<1>0. UNCHANGED policyVars => PolicyTypeOK'
  BY DEF PolicyTypeOK, policyVars
<1>1. CASE UNCHANGED vars
  BY <1>0, <1>1 DEF vars, policyVars
<1>2. ASSUME NEW s \in Sandbox, RunPodSandbox(s) PROVE TypeOK'
  BY <1>0, <1>2 DEF RunPodSandbox
<1>3. ASSUME NEW s \in Sandbox, StopPodSandbox(s) PROVE TypeOK'
  BY <1>0, <1>3 DEF StopPodSandbox
<1>4. ASSUME NEW s \in Sandbox, RemovePodSandbox(s) PROVE TypeOK'
  BY <1>0, <1>4 DEF RemovePodSandbox
<1>5. ASSUME NEW c \in Ctr, CreateContainer(c) PROVE TypeOK'
  <2>1. /\ cachedPods' \subseteq Sandbox /\ cachedCtrs' \subseteq Ctr
        /\ sandboxes' = sandboxes /\ agent' = agent /\ toRebuild' = toRebuild
    BY <1>5 DEF CreateContainer
  <2>2. CASE Start(c, {}) /\ UNCHANGED policyVars
    BY <1>0, <2>1, <2>2 DEF Start
  <2>3. ASSUME NEW p \in Pool, AllocatePool(GidOf[c], RequestOf[c], p), Start(c, CpusOf[p])
        PROVE  TypeOK'
    <3>1. PolicyTypeOK'
      BY <2>3, AllocateTypeOK
    <3> QED
      BY <2>1, <2>3, <3>1, PoolCpusInRoot DEF Start
  <2> QED
    BY <1>5, <2>2, <2>3, CreateCases DEF CreateContainer
<1>6. ASSUME NEW c \in Ctr, CreateContainerUnseen(c) PROVE TypeOK'
  BY <1>0, <1>6 DEF CreateContainerUnseen, Start
<1>7. ASSUME NEW c \in Ctr, StopContainer(c) PROVE TypeOK'
  <2>1. PolicyTypeOK'
    BY <1>0, <1>7, HookTypeOK DEF StopContainer
  <2> QED
    BY <1>7, <2>1 DEF StopContainer
<1>8. ASSUME NEW c \in Ctr, RemoveContainer(c) PROVE TypeOK'
  <2>1. PolicyTypeOK'
    BY <1>0, <1>8, HookTypeOK DEF RemoveContainer
  <2> QED
    BY <1>8, <2>1 DEF RemoveContainer
<1>9. CASE Crash
  <2>1. PolicyTypeOK'
    BY <1>9 DEF Crash, PolicyTypeOK, EmptySupply, Supply
  <2> QED
    BY <1>9, <2>1 DEF Crash
<1>10. CASE Synchronize
  BY <1>0, <1>10 DEF Synchronize, AfterRebuild
<1>11. ASSUME NEW c \in Ctr, RebuildNext(c) PROVE TypeOK'
  <2>1. PolicyTypeOK'
    BY <1>0, <1>11, RebuildTypeOK DEF RebuildNext
  <2> QED
    BY <1>11, <2>1 DEF RebuildNext, AfterRebuild
<1> QED
  BY <1>1, <1>2, <1>3, <1>4, <1>5, <1>6, <1>7, <1>8, <1>9, <1>10, <1>11 DEF Next

\* Every part of the state keeps its type, through crashes and rebuilds.
THEOREM TypeCorrect == Spec => []TypeOK
<1>1. Init => TypeOK
  BY DEF Init, TypeOK, PolicyInit, PolicyTypeOK, EmptySupply, Supply
<1> QED
  BY <1>1, StepTypeOK, PTL DEF Spec

--------------------------------------------------------------------------------
(***************************************************************************)
(* Capacity.                                                               *)
(***************************************************************************)

\* Only a creation or a release changes the supplies while the agent is up.
LEMMA StepWithinCapacity ==
  ASSUME TypeOK, [Next]_vars, NEW q \in Pool \ {Root},
         agent = "up", supply'[q].byRequest > supply[q].byRequest
  PROVE  supply'[q].byRequest <= TotalSharedCPU(q)
<1>0. PolicyTypeOK /\ supply \in [Pool -> Supply] /\ supply[q].byRequest \in Int
  BY DEF TypeOK, PolicyTypeOK, Supply
<1>1. ~(supply' = supply)
  BY <1>0
<1>2. ASSUME NEW c \in Ctr, CreateContainer(c)
      PROVE  supply'[q].byRequest <= TotalSharedCPU(q)
  <2>1. PICK p \in Pool : /\ IsPoolFor(RequestOf[c], c \in SystemCtr, p)
                          /\ AllocatePool(GidOf[c], RequestOf[c], p)
    BY <1>1, <1>2, CreateCases DEF CreateContainer, policyVars
  <2>2. p = Root \/ HasCapacity(supply, RequestOf[c], p)
    BY <2>1, SelectedPoolIsFiltered DEF IsPoolFor
  <2>3. supply' = Charge(supply, GrantOf(RequestOf[c], p))
    BY <2>1 DEF AllocatePool
  <2>4. q \in Path[p]
    BY <1>0, <2>3 DEF Charge, GrantOf
  <2>5. supply'[q].byRequest = supply[q].byRequest + RequestOf[c].cpu
    BY <2>3, <2>4 DEF Charge, GrantOf, Add
  <2>6. supply[q].byRequest + RequestOf[c].cpu <= TotalSharedCPU(q)
    BY <1>0, <2>2, <2>4, ChargeWithinCapacity
  <2> QED
    BY <2>5, <2>6
<1>3. ASSUME NEW c \in Ctr, StopContainer(c) \/ RemoveContainer(c)
      PROVE  supply'[q].byRequest <= TotalSharedCPU(q)
  <2>1. ReleasePool(GidOf[c])
    BY <1>1, <1>3 DEF StopContainer, RemoveContainer, PostStopContainerHook, policyVars
  <2> QED
    BY <1>0, <2>1, ReleaseWithinCapacity
<1>4. ASSUME Crash PROVE supply'[q].byRequest <= TotalSharedCPU(q)
  <2>1. supply'[q].byRequest = 0
    BY <1>4 DEF Crash, EmptySupply
  <2>2. TotalSharedCPU(q) \in Nat
    BY TotalIsNat
  <2> QED
    BY <2>1, <2>2
<1> QED
  BY <1>1, <1>2, <1>3, <1>4
  DEF Next, vars, policyVars, RunPodSandbox, StopPodSandbox, RemovePodSandbox,
      CreateContainerUnseen, Synchronize, RebuildNext

\* Whatever the runtime does, and however early a grant was given back, the
\* agent never allocates more of a pool below the root than it has
\* (filterPoolsByCapacity before supply.Allocate).
THEOREM CapacityRespectedByAllocation == Spec => AllocationWithinCapacity
<1>1. TypeOK /\ [Next]_vars =>
        [\A p \in Pool \ {Root} :
           (agent = "up" /\ supply'[p].byRequest > supply[p].byRequest)
             => supply'[p].byRequest <= TotalSharedCPU(p)]_vars
  BY StepWithinCapacity
<1> QED
  BY <1>1, TypeCorrect, PTL DEF Spec, AllocationWithinCapacity

--------------------------------------------------------------------------------
(***************************************************************************)
(* Capacity comes back: every grant has a running container.               *)
(*                                                                         *)
(* The invariant adds what the release of a grant depends on: the stopping *)
(* container and its sandbox must still be in the cache, and no other      *)
(* container may run under the same id.                                    *)
(***************************************************************************)
OneRunningPerId ==
  \A c, d \in Ctr :
    ctrs[c] = "running" /\ ctrs[d] = "running" /\ GidOf[c] = GidOf[d] => c = d

RunningInReadySandbox ==
  \A c \in Ctr : ctrs[c] = "running" => sandboxes[SandboxOf[c]] = "ready"

NoGrantWhileDown == agent = "down" => \A g \in Gid : ~Held(g)

CacheCoversRebuild ==
  agent = "syncing" =>
    /\ toRebuild \subseteq cachedCtrs
    /\ \A s \in Sandbox : sandboxes[s] = "ready" => s \in cachedPods

GrantIsReleasable ==
  \A g \in Gid : Held(g) =>
    \E c \in Running(g) : c \in cachedCtrs /\ SandboxOf[c] \in cachedPods

GrantInvariant ==
  /\ TypeOK
  /\ OneRunningPerId
  /\ RunningInReadySandbox
  /\ NoGrantWhileDown
  /\ CacheCoversRebuild
  /\ GrantIsReleasable

\* kubelet starts no container while another of the same id runs.
LEMMA StepOneRunningPerId == GrantInvariant /\ [Next]_vars => OneRunningPerId'
<1> SUFFICES ASSUME GrantInvariant, [Next]_vars PROVE OneRunningPerId'
  OBVIOUS
<1> USE DEF GrantInvariant, OneRunningPerId, TypeOK
<1>1. ASSUME NEW c \in Ctr, NEW cpus, MayCreate(c), Start(c, cpus) PROVE OneRunningPerId'
  BY <1>1 DEF MayCreate, Start, Running
<1>2. ASSUME NEW c \in Ctr, CreateContainer(c) PROVE OneRunningPerId'
  BY <1>1, <1>2, CreateCases DEF CreateContainer
<1>3. ASSUME NEW c \in Ctr, CreateContainerUnseen(c) PROVE OneRunningPerId'
  BY <1>1, <1>3 DEF CreateContainerUnseen
<1>4. ASSUME NEW c \in Ctr, StopContainer(c) \/ RemoveContainer(c) PROVE OneRunningPerId'
  BY <1>4 DEF StopContainer, RemoveContainer
<1>5. CASE UNCHANGED ctrs
  BY <1>5
<1> QED
  BY <1>2, <1>3, <1>4, <1>5
  DEF Next, vars, runtimeVars, RunPodSandbox, StopPodSandbox, RemovePodSandbox, Crash,
      Synchronize, RebuildNext

\* The runtime stops a sandbox only after its containers.
LEMMA StepRunningInReadySandbox ==
  GrantInvariant /\ [Next]_vars => RunningInReadySandbox'
<1> SUFFICES ASSUME GrantInvariant, [Next]_vars PROVE RunningInReadySandbox'
  OBVIOUS
<1> USE DEF GrantInvariant, RunningInReadySandbox, TypeOK
<1>1. ASSUME NEW c \in Ctr, NEW cpus, MayCreate(c), Start(c, cpus), UNCHANGED sandboxes
      PROVE  RunningInReadySandbox'
  BY <1>1 DEF MayCreate, Start
<1>2. ASSUME NEW c \in Ctr, CreateContainer(c) PROVE RunningInReadySandbox'
  BY <1>1, <1>2, CreateCases DEF CreateContainer
<1>3. ASSUME NEW c \in Ctr, CreateContainerUnseen(c) PROVE RunningInReadySandbox'
  BY <1>1, <1>3 DEF CreateContainerUnseen
<1>4. ASSUME NEW c \in Ctr, StopContainer(c) \/ RemoveContainer(c)
      PROVE  RunningInReadySandbox'
  BY <1>4 DEF StopContainer, RemoveContainer
<1>5. ASSUME NEW s \in Sandbox, RunPodSandbox(s) \/ StopPodSandbox(s) \/ RemovePodSandbox(s)
      PROVE  RunningInReadySandbox'
  BY <1>5 DEF RunPodSandbox, StopPodSandbox, RemovePodSandbox
<1>6. CASE UNCHANGED runtimeVars
  BY <1>6 DEF runtimeVars
<1> QED
  BY <1>2, <1>3, <1>4, <1>5, <1>6 DEF Next, vars, runtimeVars, Crash, Synchronize, RebuildNext

\* A crash loses every grant (nothing is persisted) and none is made until
\* Synchronize.
LEMMA StepNoGrantWhileDown == GrantInvariant /\ [Next]_vars => NoGrantWhileDown'
<1> SUFFICES ASSUME GrantInvariant, [Next]_vars, agent' = "down", NEW g \in Gid
             PROVE  ~Held(g)'
  BY DEF NoGrantWhileDown
<1> USE DEF GrantInvariant, NoGrantWhileDown, Held
<1>1. CASE Crash
  BY <1>1 DEF Crash
<1>2. CASE agent = "down" /\ UNCHANGED grants
  BY <1>2
<1> QED
  BY <1>1, <1>2
  DEF Next, vars, RuntimeMayAct, RunPodSandbox, StopPodSandbox, RemovePodSandbox,
      CreateContainer, CreateContainerUnseen, StopContainer, RemoveContainer, Synchronize,
      RebuildNext, AfterRebuild, policyVars

\* What RebuildAllocationsFromCache has yet to visit is in the cache.
LEMMA StepCacheCoversRebuild == GrantInvariant /\ [Next]_vars => CacheCoversRebuild'
<1> SUFFICES ASSUME GrantInvariant, [Next]_vars, agent' = "syncing"
             PROVE  CacheCoversRebuild'
  BY DEF CacheCoversRebuild
<1> USE DEF GrantInvariant, CacheCoversRebuild
<1>1. CASE Synchronize
  BY <1>1 DEF Synchronize, runtimeVars
<1>2. ASSUME NEW c \in Ctr, RebuildNext(c) PROVE CacheCoversRebuild'
  BY <1>2 DEF RebuildNext, runtimeVars, cacheVars
<1>3. CASE UNCHANGED vars
  BY <1>3 DEF vars
<1> QED
  BY <1>1, <1>2, <1>3
  DEF Next, RuntimeMayAct, RunPodSandbox, StopPodSandbox, RemovePodSandbox,
      CreateContainer, CreateContainerUnseen, StopContainer, RemoveContainer, Crash

\* A dying container gives its grant back, and no other container loses one.
LEMMA HookEffect ==
  ASSUME TypeOK, NEW c \in Ctr, PostStopContainerHook(c)
  PROVE  /\ \A g \in Gid : grants'[g] \in {grants[g], NoGrant}
         /\ \A g \in Gid : g # GidOf[c] => grants'[g] = grants[g]
         /\ (c \in cachedCtrs /\ SandboxOf[c] \in cachedPods)
              => grants'[GidOf[c]] = NoGrant
<1>1. grants \in [Gid -> Grant \cup {NoGrant}] /\ GidOf[c] \in Gid
  BY DEF TypeOK, PolicyTypeOK
<1> QED
  BY <1>1 DEF PostStopContainerHook, ReleasePool, Held, policyVars

\* The running container behind a grant, and its pod, stay in the cache: this
\* is what lets PostStopContainerHook find the grant.
LEMMA StepGrantIsReleasable == GrantInvariant /\ [Next]_vars => GrantIsReleasable'
<1> SUFFICES ASSUME GrantInvariant, [Next]_vars, NEW g \in Gid, Held(g)'
             PROVE  \E d \in Ctr : /\ ctrs'[d] = "running" /\ GidOf[d] = g
                                  /\ d \in cachedCtrs' /\ SandboxOf[d] \in cachedPods'
  BY DEF GrantIsReleasable, Running
<1> DEFINE Releasable(d) == /\ ctrs[d] = "running" /\ GidOf[d] = g
                            /\ d \in cachedCtrs /\ SandboxOf[d] \in cachedPods
<1>0. Held(g) => \E d \in Ctr : Releasable(d)
  BY DEF GrantInvariant, GrantIsReleasable, Running
<1>1. TypeOK /\ RunningInReadySandbox /\ NoGrantWhileDown /\ OneRunningPerId
  BY DEF GrantInvariant
<1>2. ASSUME NEW c \in Ctr, CreateContainer(c) PROVE \E d \in Ctr : Releasable(d)'
  <2>1. /\ c \in cachedCtrs' /\ SandboxOf[c] \in cachedPods'
        /\ cachedCtrs \subseteq cachedCtrs' /\ cachedPods \subseteq cachedPods'
        /\ ctrs' = [ctrs EXCEPT ![c] = "running"]
    BY <1>2, CreateCases DEF CreateContainer, Start
  <2>2. CASE GidOf[c] = g
    BY <2>1, <2>2, <1>1 DEF TypeOK
  <2>3. CASE GidOf[c] # g
    <3>1. Held(g)
      BY <1>1, <1>2, <2>3, CreateCases
      DEF CreateContainer, AllocatePool, policyVars, Held, TypeOK, PolicyTypeOK
    <3>2. PICK d \in Ctr : Releasable(d)
      BY <1>0, <3>1
    <3>3. Releasable(d)'
      BY <1>1, <2>1, <3>2 DEF TypeOK
    <3> QED
      BY <3>3
  <2> QED
    BY <2>2, <2>3
<1>3. ASSUME NEW c \in Ctr, StopContainer(c) \/ RemoveContainer(c), agent = "up"
      PROVE  \E d \in Ctr : Releasable(d)'
  <2>1. PostStopContainerHook(c)
    BY <1>3 DEF StopContainer, RemoveContainer
  <2>2. Held(g)
    BY <1>1, <2>1, HookEffect DEF Held
  <2>3. PICK d \in Ctr : Releasable(d)
    BY <1>0, <2>2
  <2>4. d # c
    BY <1>1, <2>1, <2>3, HookEffect DEF Held
  <2>5. Releasable(d)'
    BY <1>1, <1>3, <2>3, <2>4 DEF StopContainer, RemoveContainer, TypeOK, cacheVars
  <2> QED
    BY <2>5
<1>4. ASSUME NEW c \in Ctr, RebuildNext(c) PROVE \E d \in Ctr : Releasable(d)'
  <2>1. UNCHANGED <<ctrs, cachedCtrs, cachedPods>>
    BY <1>4 DEF RebuildNext, runtimeVars, cacheVars
  <2>2. CASE Held(g)
    BY <1>0, <2>1, <2>2
  <2>3. CASE ~Held(g)
    <3>1. IsRebuilt(c) /\ GidOf[c] = g
      BY <1>1, <1>4, <2>3
      DEF RebuildNext, RebuildContainerAllocation, policyVars, Held, TypeOK, PolicyTypeOK
    <3>2. c \in cachedCtrs /\ SandboxOf[c] \in cachedPods
      BY <1>1, <1>4, <3>1
      DEF GrantInvariant, CacheCoversRebuild, RebuildNext, IsRebuilt, RunningInReadySandbox
    <3> QED
      BY <2>1, <3>1, <3>2 DEF IsRebuilt
  <2> QED
    BY <2>2, <2>3
<1>5. ASSUME NEW s \in Sandbox,
             RunPodSandbox(s) \/ StopPodSandbox(s) \/ RemovePodSandbox(s)
      PROVE  \E d \in Ctr : Releasable(d)'
  <2>1. UNCHANGED <<grants, ctrs, cachedCtrs>>
    BY <1>5 DEF RunPodSandbox, StopPodSandbox, RemovePodSandbox, policyVars, cacheVars
  <2>2. PICK d \in Ctr : Releasable(d)
    BY <1>0, <2>1 DEF Held
  <2>3. SandboxOf[d] \in cachedPods'
    BY <1>1, <1>5, <2>2
    DEF RunPodSandbox, StopPodSandbox, RemovePodSandbox, cacheVars, RunningInReadySandbox
  <2> QED
    BY <2>1, <2>2, <2>3
<1>6. CASE Crash
  BY <1>6 DEF Crash, Held
<1>7. CASE agent = "down" /\ UNCHANGED grants
  BY <1>1, <1>7 DEF NoGrantWhileDown, Held
<1>8. CASE UNCHANGED vars
  BY <1>0, <1>8 DEF vars, Held
<1> QED
  BY <1>1, <1>2, <1>3, <1>4, <1>5, <1>6, <1>7, <1>8
  DEF Next, TypeOK, RuntimeMayAct, CreateContainerUnseen, Synchronize, StopContainer,
      RemoveContainer, policyVars

\* The grant invariant holds of a fresh agent.
LEMMA InitGrantInvariant == Init => GrantInvariant
<1>1. Init => TypeOK
  BY DEF Init, TypeOK, PolicyInit, PolicyTypeOK, EmptySupply, Supply
<1> QED
  BY <1>1
  DEF Init, PolicyInit, GrantInvariant, OneRunningPerId, RunningInReadySandbox,
      NoGrantWhileDown, CacheCoversRebuild, GrantIsReleasable, Held

\* Every step preserves the grant invariant.
LEMMA StepGrantInvariant == GrantInvariant /\ [Next]_vars => GrantInvariant'
<1>1. GrantInvariant => TypeOK
  BY DEF GrantInvariant
<1> QED
  BY <1>1, StepTypeOK, StepOneRunningPerId, StepRunningInReadySandbox,
     StepNoGrantWhileDown, StepCacheCoversRebuild, StepGrantIsReleasable
  DEF GrantInvariant

\* No capacity leaks: a grant lives only as long as a container runs under its
\* id, even when removals are late and the agent restarts in between
\* (PostStopContainerHook, Synchronize, RebuildAllocationsFromCache).
THEOREM NoGrantLeaks == Spec => []GrantHasRunningCtr
<1>1. GrantInvariant => GrantHasRunningCtr
  BY DEF GrantInvariant, GrantIsReleasable, GrantHasRunningCtr
<1> QED
  BY <1>1, InitGrantInvariant, StepGrantInvariant, PTL DEF Spec

--------------------------------------------------------------------------------
(***************************************************************************)
(* What a grant says, and that the supplies are what the grants say.       *)
(***************************************************************************)

\* The grant of the create path, and that of a rebuild, against the request.
Matches(grant, c) ==
  LET created == GrantOf(RequestOf[c], grant.pool)
  IN grant = created \/ (c \notin SystemCtr /\ Recovers(SpecOf[c], created, grant))

LEMMA NewGrantMatches ==
  ASSUME NEW c \in Ctr, NEW p \in Pool
  PROVE  /\ Matches(GrantOf(RequestOf[c], p), c)
         /\ c \notin SystemCtr => Matches(GrantFromContainer(ResourcesOf(SpecOf[c]), p), c)
<1>1. Matches(GrantOf(RequestOf[c], p), c)
  BY DEF Matches, GrantOf
<1>2. Recovers(SpecOf[c], GrantOf(RequestOf[c], p), GrantFromContainer(ResourcesOf(SpecOf[c]), p))
  BY AmountsRecovered DEF RequestOf
<1> QED
  BY <1>1, <1>2, RebuiltGrant DEF Matches

\* A grant follows its container: a new one is stored under an id that no
\* container ran under before, so no grant is left to the wrong container.
LEMMA StepGrantMatches ==
  GrantInvariant /\ GrantMatchesRequest /\ [Next]_vars => GrantMatchesRequest'
<1> SUFFICES ASSUME GrantInvariant, GrantMatchesRequest, [Next]_vars,
                    NEW d \in Ctr, ctrs'[d] = "running", Held(GidOf[d])'
             PROVE  Matches(grants'[GidOf[d]], d)
  BY DEF GrantMatchesRequest, Matches, Running
<1>0. TypeOK /\ OneRunningPerId /\ NoGrantWhileDown
  BY DEF GrantInvariant
<1>1. ctrs[d] = "running" /\ Held(GidOf[d]) => Matches(grants[GidOf[d]], d)
  BY <1>0 DEF GrantMatchesRequest, Matches, Running, TypeOK
<1>2. ASSUME NEW c \in Ctr, CreateContainer(c) PROVE Matches(grants'[GidOf[d]], d)
  <2>1. /\ MayCreate(c) /\ ctrs' = [ctrs EXCEPT ![c] = "running"]
    BY <1>2, CreateCases DEF CreateContainer, Start
  <2>2. ~Held(GidOf[c])
    BY <1>0, <2>1 DEF GrantInvariant, GrantIsReleasable, MayCreate, TypeOK
  <2>3. d = c \/ (d # c /\ ctrs[d] = "running" /\ GidOf[d] # GidOf[c])
    BY <1>0, <2>1 DEF MayCreate, Running, TypeOK
  <2>4. CASE UNCHANGED policyVars
    BY <1>1, <2>2, <2>3, <2>4 DEF policyVars, Held
  <2>5. ASSUME NEW p \in Pool, AllocatePool(GidOf[c], RequestOf[c], p)
        PROVE  Matches(grants'[GidOf[d]], d)
    <3>1. grants' = [grants EXCEPT ![GidOf[c]] = GrantOf(RequestOf[c], p)]
      BY <2>5 DEF AllocatePool
    <3>2. CASE d = c
      BY <1>0, <3>1, <3>2, NewGrantMatches DEF TypeOK, PolicyTypeOK
    <3>3. CASE d # c
      <4>1. grants'[GidOf[d]] = grants[GidOf[d]]
        BY <1>0, <2>3, <3>1, <3>3 DEF TypeOK, PolicyTypeOK
      <4> QED
        BY <1>1, <2>3, <3>3, <4>1 DEF Held
    <3> QED
      BY <3>2, <3>3
  <2> QED
    BY <1>2, <2>4, <2>5, CreateCases DEF CreateContainer
<1>3. ASSUME NEW c \in Ctr, StopContainer(c) \/ RemoveContainer(c)
      PROVE  Matches(grants'[GidOf[d]], d)
  <2>1. ctrs[d] = "running"
    BY <1>0, <1>3 DEF StopContainer, RemoveContainer, TypeOK
  <2>2. grants'[GidOf[d]] \in {grants[GidOf[d]], NoGrant}
    <3>1. GidOf[d] \in Gid
      OBVIOUS
    <3> QED
      BY <1>0, <1>3, <3>1, HookEffect DEF StopContainer, RemoveContainer, policyVars
  <2> QED
    BY <1>1, <2>1, <2>2 DEF Held
<1>4. ASSUME NEW c \in Ctr, RebuildNext(c) PROVE Matches(grants'[GidOf[d]], d)
  <2>1. ctrs[d] = "running"
    BY <1>4 DEF RebuildNext, runtimeVars
  <2>2. CASE UNCHANGED policyVars
    BY <1>1, <2>1, <2>2 DEF policyVars, Held
  <2>3. ASSUME NEW p \in Pool, IsRebuilt(c), ~Held(GidOf[c]),
               grants' = [grants EXCEPT ![GidOf[c]] = GrantFromContainer(ResourcesOf(SpecOf[c]), p)]
        PROVE  Matches(grants'[GidOf[d]], d)
    <3>1. CASE GidOf[d] = GidOf[c]
      <4>1. d = c
        BY <1>0, <2>1, <2>3, <3>1 DEF OneRunningPerId, IsRebuilt
      <4> QED
        BY <1>0, <2>3, <4>1, NewGrantMatches DEF TypeOK, PolicyTypeOK, IsRebuilt
    <3>2. CASE GidOf[d] # GidOf[c]
      <4>1. grants'[GidOf[d]] = grants[GidOf[d]]
        BY <1>0, <2>3, <3>2 DEF TypeOK, PolicyTypeOK
      <4> QED
        BY <1>1, <2>1, <4>1 DEF Held
    <3> QED
      BY <3>1, <3>2
  <2> QED
    BY <1>4, <2>2, <2>3 DEF RebuildNext, RebuildContainerAllocation
<1>5. CASE Crash
  BY <1>5 DEF Crash, Held
<1>6. ASSUME NEW c \in Ctr, CreateContainerUnseen(c)
      PROVE  Matches(grants'[GidOf[d]], d)
  BY <1>0, <1>6 DEF CreateContainerUnseen, policyVars, NoGrantWhileDown, Held
<1>7. CASE UNCHANGED <<grants, ctrs>>
  BY <1>1, <1>7 DEF Held
<1> QED
  BY <1>2, <1>3, <1>4, <1>5, <1>6, <1>7
  DEF Next, vars, runtimeVars, policyVars, RunPodSandbox, StopPodSandbox, RemovePodSandbox,
      Synchronize

\* A grant never speaks for another container than the one that runs: its amounts
\* are those that container was created with or, after a rebuild, those its cgroup
\* values give back, which differ as Recovers says (AllocatePool, releasePool,
\* RebuildContainerAllocation).
THEOREM GrantsMatchRequests == Spec => []GrantMatchesRequest
<1>1. Init => GrantMatchesRequest
  BY DEF Init, PolicyInit, GrantMatchesRequest, Held
<1> QED
  BY <1>1, InitGrantInvariant, StepGrantInvariant, StepGrantMatches, PTL DEF Spec

\* A step of the agent balances the books: a grant is only stored under an id
\* that holds none, though AllocatePool would overwrite one.
LEMMA StepLedger ==
  GrantInvariant /\ HeldFinite /\ Ledger /\ [Next]_vars => (HeldFinite /\ Ledger)'
<1> SUFFICES ASSUME GrantInvariant, HeldFinite, Ledger, [Next]_vars PROVE (HeldFinite /\ Ledger)'
  OBVIOUS
<1>0. TypeOK /\ PolicyTypeOK /\ \A c \in Ctr : GidOf[c] \in Gid
  BY DEF GrantInvariant, TypeOK
<1>1. CASE UNCHANGED policyVars
  BY <1>1 DEF policyVars, HeldFinite, Ledger, Held, GrantsUnder
<1>2. ASSUME NEW g \in Gid, ReleasePool(g) PROVE (HeldFinite /\ Ledger)'
  <2>1. CASE Held(g)
    BY <1>0, <1>2, <2>1, DischargeLedger DEF ReleasePool
  <2>2. CASE ~Held(g)
    BY <1>1, <1>2, <2>2 DEF ReleasePool
  <2> QED
    BY <2>1, <2>2
<1>3. ASSUME NEW c \in Ctr, CreateContainer(c) PROVE (HeldFinite /\ Ledger)'
  <2>1. ~Held(GidOf[c])
    BY <1>0, <1>3 DEF CreateContainer, GrantInvariant, GrantIsReleasable, MayCreate
  <2>2. ASSUME NEW p \in Pool, AllocatePool(GidOf[c], RequestOf[c], p)
        PROVE  (HeldFinite /\ Ledger)'
    <3>1. /\ supply' = Charge(supply, GrantOf(RequestOf[c], p))
          /\ grants' = [grants EXCEPT ![GidOf[c]] = GrantOf(RequestOf[c], p)]
      BY <2>2 DEF AllocatePool
    <3>2. GrantOf(RequestOf[c], p) \in Grant
      BY GrantOfType
    <3> QED
      BY <1>0, <2>1, <3>1, <3>2, ChargeLedger
  <2> QED
    BY <1>1, <1>3, <2>2, CreateCases DEF CreateContainer
<1>4. ASSUME NEW c \in Ctr, StopContainer(c) \/ RemoveContainer(c)
      PROVE  (HeldFinite /\ Ledger)'
  BY <1>0, <1>1, <1>2, <1>4 DEF StopContainer, RemoveContainer, PostStopContainerHook
<1>5. ASSUME NEW c \in Ctr, RebuildNext(c) PROVE (HeldFinite /\ Ledger)'
  <2>1. ASSUME NEW p \in Pool, RebuildContainerAllocation(GidOf[c], ResourcesOf(SpecOf[c]), p)
        PROVE  (HeldFinite /\ Ledger)'
    <3>1. GrantFromContainer(ResourcesOf(SpecOf[c]), p) \in Grant
      BY RebuiltGrant
    <3> QED
      BY <1>0, <1>1, <2>1, <3>1, ChargeLedger DEF RebuildContainerAllocation
  <2> QED
    BY <1>1, <1>5, <2>1 DEF RebuildNext
<1>6. CASE Crash
  <2>1. PolicyInit'
    BY <1>6 DEF Crash, PolicyInit
  <2> QED
    BY <2>1, EmptyLedger, PTL
<1> QED
  BY <1>1, <1>3, <1>4, <1>5, <1>6
  DEF Next, vars, policyVars, RunPodSandbox, StopPodSandbox, RemovePodSandbox,
      CreateContainerUnseen, Synchronize

\* The agent's supplies are exactly the sum of its grants at all times, across
\* crashes and in the middle of a rebuild: no stop, removal or restart leaves a
\* charge without a grant or a grant without its charge.
THEOREM AgentBooksBalance == Spec => []Ledger
<1>1. Init => HeldFinite /\ Ledger
  BY EmptyLedger DEF Init
<1> QED
  BY <1>1, InitGrantInvariant, StepGrantInvariant, StepLedger, PTL DEF Spec

--------------------------------------------------------------------------------
(***************************************************************************)
(* Capacity is not handed out twice: what runs pinned holds its grant.     *)
(*                                                                         *)
(* This needs dead containers to be removed before their successors start  *)
(* (PromptRemoval): the hook of a later removal would release the grant of *)
(* the successor.  The invariant follows a grant through the rebuild, one  *)
(* container at a time.                                                    *)
(***************************************************************************)
NoDeadPredecessor ==
  \A c, d \in Ctr :
    ctrs[c] = "running" /\ ctrs[d] = "exited" => GidOf[c] # GidOf[d]

CpusetIsPool == \A c \in Ctr : cpuset[c] # {} => \E p \in Pool : cpuset[c] = CpusOf[p]

RebuildDone == agent = "up" => toRebuild = {}

HasItsGrant(c) == Held(GidOf[c]) /\ CpusOf[grants[GidOf[c]].pool] = cpuset[c]

PinnedIsGranted ==
  agent # "down" => \A c \in (Pinned \ SystemCtr) \ toRebuild : HasItsGrant(c)

\* While the rebuild is under way nothing else has given out grants.
GrantIsRebuilt ==
  agent = "syncing" =>
    \A g \in Gid : Held(g) => \E c \in Pinned \ SystemCtr : GidOf[c] = g /\ HasItsGrant(c)

PinInvariant ==
  /\ GrantInvariant
  /\ NoDeadPredecessor
  /\ CpusetIsPool
  /\ RebuildDone
  /\ PinnedIsGranted
  /\ GrantIsRebuilt

\* With prompt removal no exited container shares the id of a running one, so
\* no RemoveContainer can find the grant of the latter.
LEMMA StepNoDeadPredecessor ==
  PromptRemoval /\ PinInvariant /\ [Next]_vars => NoDeadPredecessor'
<1> SUFFICES ASSUME PromptRemoval, PinInvariant, [Next]_vars PROVE NoDeadPredecessor'
  OBVIOUS
<1> USE DEF PinInvariant, GrantInvariant, NoDeadPredecessor, TypeOK
<1>1. ASSUME NEW c \in Ctr, NEW cpus, MayCreate(c), Start(c, cpus) PROVE NoDeadPredecessor'
  BY <1>1 DEF MayCreate, Start
<1>2. ASSUME NEW c \in Ctr, CreateContainer(c) PROVE NoDeadPredecessor'
  BY <1>1, <1>2, CreateCases DEF CreateContainer
<1>3. ASSUME NEW c \in Ctr, CreateContainerUnseen(c) PROVE NoDeadPredecessor'
  BY <1>1, <1>3 DEF CreateContainerUnseen
<1>4. ASSUME NEW c \in Ctr, StopContainer(c) \/ RemoveContainer(c) PROVE NoDeadPredecessor'
  BY <1>4 DEF StopContainer, RemoveContainer, OneRunningPerId
<1>5. CASE UNCHANGED ctrs
  BY <1>5
<1> QED
  BY <1>2, <1>3, <1>4, <1>5
  DEF Next, vars, runtimeVars, RunPodSandbox, StopPodSandbox, RemovePodSandbox, Crash,
      Synchronize, RebuildNext

\* A container's cpuset is empty or the CPUs of a pool: only CreateContainer
\* sets one.
LEMMA StepCpusetIsPool == PinInvariant /\ [Next]_vars => CpusetIsPool'
<1> SUFFICES ASSUME PinInvariant, [Next]_vars PROVE CpusetIsPool'
  OBVIOUS
<1> USE DEF PinInvariant, GrantInvariant, CpusetIsPool, TypeOK
<1>1. ASSUME NEW c \in Ctr, CreateContainer(c) PROVE CpusetIsPool'
  <2>1. CASE Start(c, {})
    BY <2>1 DEF Start
  <2>2. ASSUME NEW p \in Pool, Start(c, CpusOf[p]) PROVE CpusetIsPool'
    BY <2>2 DEF Start
  <2> QED
    BY <1>1, <2>1, <2>2, CreateCases DEF CreateContainer
<1>2. ASSUME NEW c \in Ctr, CreateContainerUnseen(c) PROVE CpusetIsPool'
  BY <1>2 DEF CreateContainerUnseen, Start
<1>3. CASE UNCHANGED cpuset
  BY <1>3
<1> QED
  BY <1>1, <1>2, <1>3
  DEF Next, vars, runtimeVars, RunPodSandbox, StopPodSandbox, RemovePodSandbox, Crash,
      Synchronize, RebuildNext, StopContainer, RemoveContainer

\* Nothing is left to rebuild once the agent is up.
LEMMA StepRebuildDone == PinInvariant /\ [Next]_vars => RebuildDone'
<1> SUFFICES ASSUME PinInvariant, [Next]_vars, agent' = "up" PROVE toRebuild' = {}
  BY DEF RebuildDone
<1>1. RebuildDone
  BY DEF PinInvariant
<1>2. CASE UNCHANGED vars
  BY <1>1, <1>2 DEF RebuildDone, vars
<1>3. CASE Synchronize
  BY <1>3 DEF Synchronize, AfterRebuild
<1>4. ASSUME NEW c \in Ctr, RebuildNext(c) PROVE toRebuild' = {}
  BY <1>4 DEF RebuildNext, AfterRebuild
<1> QED
  BY <1>1, <1>2, <1>3, <1>4
  DEF RebuildDone, Next, RuntimeMayAct, RunPodSandbox, StopPodSandbox,
      RemovePodSandbox, CreateContainer, CreateContainerUnseen, StopContainer,
      RemoveContainer, Crash

\* A step of the rebuild grants to the container it visits, if that runs pinned
\* without a grant, the pool whose CPUs it has, and changes no other grant.
LEMMA RebuildEffect ==
  ASSUME PinInvariant, NEW c \in Ctr, RebuildNext(c), NEW g \in Gid
  PROVE  \/ grants'[g] = grants[g]
         \/ ~Held(g) /\ GidOf[c] = g /\ IsRebuilt(c) /\ HasItsGrant(c)'
<1>0. TypeOK /\ UNCHANGED <<ctrs, cpuset>>
  BY DEF PinInvariant, GrantInvariant, RebuildNext, runtimeVars
<1>1. CASE UNCHANGED policyVars
  BY <1>1 DEF policyVars
<1>2. ASSUME IsRebuilt(c), NEW p \in Pool, IsNodeByCPUSet(cpuset[c], p), ~Held(GidOf[c]),
             grants' = [grants EXCEPT ![GidOf[c]] = GrantFromContainer(ResourcesOf(SpecOf[c]), p)]
      PROVE  \/ grants'[g] = grants[g]
             \/ ~Held(g) /\ GidOf[c] = g /\ IsRebuilt(c) /\ HasItsGrant(c)'
  <2>1. CpusOf[p] = cpuset[c]
    <3>1. PICK q \in Pool : cpuset[c] = CpusOf[q]
      BY <1>2 DEF PinInvariant, CpusetIsPool, IsRebuilt
    <3> QED
      BY <1>2, <3>1, RebuildFindsPool DEF IsRebuilt
  <2>2. /\ GrantFromContainer(ResourcesOf(SpecOf[c]), p) \in Grant
        /\ GrantFromContainer(ResourcesOf(SpecOf[c]), p) # NoGrant
        /\ GrantFromContainer(ResourcesOf(SpecOf[c]), p).pool = p
    BY RebuiltGrant
  <2>3. HasItsGrant(c)'
    BY <1>0, <1>2, <2>1, <2>2 DEF HasItsGrant, Held, TypeOK, PolicyTypeOK
  <2>4. GidOf[c] # g => grants'[g] = grants[g]
    BY <1>0, <1>2 DEF TypeOK, PolicyTypeOK
  <2> QED
    BY <1>2, <2>3, <2>4
<1> QED
  BY <1>1, <1>2 DEF RebuildNext, RebuildContainerAllocation

\* A container that runs pinned after a step either ran pinned before it, and
\* keeps its grant, or was pinned, or was rebuilt, by that very step.
LEMMA StepPinnedIsGranted ==
  PromptRemoval /\ PinInvariant /\ [Next]_vars => PinnedIsGranted'
<1> SUFFICES ASSUME PromptRemoval, PinInvariant, [Next]_vars, agent' # "down",
                    NEW d \in Ctr, d \notin SystemCtr, d \notin toRebuild',
                    ctrs'[d] = "running", cpuset'[d] # {}
             PROVE  HasItsGrant(d)'
  BY DEF PinnedIsGranted, Pinned
<1>0. TypeOK /\ NoDeadPredecessor /\ OneRunningPerId /\ RebuildDone /\ NoGrantWhileDown
  BY DEF PinInvariant, GrantInvariant
<1>1. (/\ agent # "down" /\ d \notin toRebuild /\ ctrs[d] = "running" /\ cpuset[d] # {})
        => HasItsGrant(d)
  BY DEF PinInvariant, PinnedIsGranted, Pinned
<1>2. ASSUME NEW c \in Ctr, CreateContainer(c) PROVE HasItsGrant(d)'
  <2>1. /\ agent = "up" /\ toRebuild' = toRebuild /\ MayCreate(c)
        /\ ctrs' = [ctrs EXCEPT ![c] = "running"]
    BY <1>2, CreateCases DEF CreateContainer, RuntimeMayAct, Start
  <2>2. CASE Start(c, {}) /\ UNCHANGED policyVars
    <3>1. d # c /\ cpuset'[d] = cpuset[d]
      BY <1>0, <2>2 DEF Start, TypeOK
    <3>2. HasItsGrant(d)
      BY <1>0, <1>1, <2>1, <3>1 DEF TypeOK
    <3> QED
      BY <2>2, <3>1, <3>2 DEF HasItsGrant, Held, policyVars
  <2>3. ASSUME NEW p \in Pool, AllocatePool(GidOf[c], RequestOf[c], p), Start(c, CpusOf[p])
        PROVE  HasItsGrant(d)'
    <3>0. /\ GrantOf(RequestOf[c], p) \in Grant /\ GrantOf(RequestOf[c], p) # NoGrant
          /\ GrantOf(RequestOf[c], p).pool = p
      BY GrantOfType DEF GrantOf
    <3>1. CASE d = c
      BY <1>0, <2>3, <3>0, <3>1
      DEF HasItsGrant, Held, AllocatePool, Start, TypeOK, PolicyTypeOK
    <3>2. CASE d # c
      <4>1. ctrs[d] = "running" /\ cpuset'[d] = cpuset[d]
        BY <1>0, <2>1, <2>3, <3>2 DEF Start, TypeOK
      <4>2. HasItsGrant(d)
        BY <1>1, <2>1, <4>1
      <4>3. GidOf[d] # GidOf[c]
        BY <2>1, <4>1 DEF MayCreate, Running
      <4> QED
        BY <1>0, <2>3, <4>1, <4>2, <4>3
        DEF HasItsGrant, Held, AllocatePool, TypeOK, PolicyTypeOK
    <3> QED
      BY <3>1, <3>2
  <2> QED
    BY <1>2, <2>2, <2>3, CreateCases DEF CreateContainer
<1>3. ASSUME NEW c \in Ctr, StopContainer(c) \/ RemoveContainer(c) PROVE HasItsGrant(d)'
  <2>1. /\ agent = "up" /\ PostStopContainerHook(c)
        /\ toRebuild' = toRebuild /\ cpuset' = cpuset
    BY <1>0, <1>3 DEF StopContainer, RemoveContainer, RuntimeMayAct, TypeOK
  <2>2. d # c /\ ctrs[d] = "running" /\ ctrs[c] \in {"running", "exited"}
    BY <1>0, <1>3 DEF StopContainer, RemoveContainer, TypeOK
  <2>3. GidOf[d] # GidOf[c]
    BY <1>0, <2>2 DEF OneRunningPerId, NoDeadPredecessor
  <2>4. grants'[GidOf[d]] = grants[GidOf[d]]
    BY <1>0, <2>1, <2>3, HookEffect DEF TypeOK
  <2> QED
    BY <1>1, <2>1, <2>2, <2>4 DEF HasItsGrant, Held
<1>4. CASE Synchronize
  <2>1. UNCHANGED <<ctrs, cpuset>> /\ toRebuild' = {c \in Ctr : ctrs[c] \in {"running", "exited"}}
    BY <1>4 DEF Synchronize, runtimeVars
  <2> QED
    BY <2>1
<1>5. ASSUME NEW c \in Ctr, RebuildNext(c) PROVE HasItsGrant(d)'
  <2>1. /\ agent = "syncing" /\ UNCHANGED <<ctrs, cpuset>> /\ toRebuild' = toRebuild \ {c}
    BY <1>5 DEF RebuildNext, runtimeVars
  <2>2. CASE Held(GidOf[d])
    <3>1. grants'[GidOf[d]] = grants[GidOf[d]]
      BY <1>0, <1>5, <2>2
      DEF RebuildNext, RebuildContainerAllocation, policyVars, Held, TypeOK, PolicyTypeOK
    <3>2. PICK e \in Pinned \ SystemCtr : GidOf[e] = GidOf[d] /\ HasItsGrant(e)
      BY <1>0, <2>1, <2>2 DEF PinInvariant, GrantIsRebuilt, TypeOK
    <3>3. e = d
      BY <1>0, <2>1, <3>2 DEF OneRunningPerId, Pinned
    <3> QED
      BY <2>1, <3>1, <3>2, <3>3 DEF HasItsGrant, Held
  <2>3. CASE ~Held(GidOf[d])
    <3>1. d = c
      BY <1>1, <2>1, <2>3 DEF HasItsGrant
    <3>2. IsRebuilt(c) /\ toRebuild' = toRebuild \ {c}
      BY <2>1, <3>1 DEF IsRebuilt
    <3>3. PICK p \in Pool : RebuildContainerAllocation(GidOf[c], ResourcesOf(SpecOf[c]), p)
      BY <1>5, <3>2 DEF RebuildNext
    <3>4. grants'[GidOf[c]] # NoGrant
      <4>1. /\ GrantFromContainer(ResourcesOf(SpecOf[c]), p) \in Grant
            /\ grants' = [grants EXCEPT ![GidOf[c]] = GrantFromContainer(ResourcesOf(SpecOf[c]), p)]
        BY <2>3, <3>1, <3>3, RebuiltGrant DEF RebuildContainerAllocation
      <4> QED
        BY <1>0, <4>1 DEF TypeOK, PolicyTypeOK
    <3> QED
      BY <1>5, <2>3, <3>1, <3>4, RebuildEffect DEF Held
  <2> QED
    BY <2>2, <2>3
<1>6. CASE agent # "down" /\ UNCHANGED <<grants, ctrs, cpuset, toRebuild>>
  BY <1>1, <1>6 DEF HasItsGrant, Held
<1> QED
  BY <1>0, <1>2, <1>3, <1>4, <1>5, <1>6
  DEF Next, vars, RuntimeMayAct, RunPodSandbox, StopPodSandbox, RemovePodSandbox, Crash,
      CreateContainerUnseen, StopContainer, RemoveContainer, policyVars

\* While rebuilding, a grant stands for a container that was visited already.
LEMMA StepGrantIsRebuilt == PinInvariant /\ [Next]_vars => GrantIsRebuilt'
<1> SUFFICES ASSUME PinInvariant, [Next]_vars, agent' = "syncing",
                    NEW g \in Gid, Held(g)'
             PROVE  \E c \in Ctr : /\ (c \in Pinned \ SystemCtr)' /\ GidOf[c] = g
                                  /\ HasItsGrant(c)'
  BY DEF GrantIsRebuilt, Pinned
<1>0. TypeOK /\ NoGrantWhileDown
  BY DEF PinInvariant, GrantInvariant
<1>1. (agent = "syncing" /\ Held(g)) =>
        \E c \in Ctr : c \in Pinned \ SystemCtr /\ GidOf[c] = g /\ HasItsGrant(c)
  BY DEF PinInvariant, GrantIsRebuilt, Pinned
<1>2. CASE Synchronize
  BY <1>0, <1>2 DEF Synchronize, NoGrantWhileDown, Held, policyVars
<1>3. ASSUME NEW c \in Ctr, RebuildNext(c)
      PROVE  \E d \in Ctr : (d \in Pinned \ SystemCtr)' /\ GidOf[d] = g /\ HasItsGrant(d)'
  <2>1. agent = "syncing" /\ UNCHANGED <<ctrs, cpuset>>
    BY <1>3 DEF RebuildNext, runtimeVars
  <2>2. CASE grants'[g] = grants[g]
    <3>1. PICK e \in Ctr : e \in Pinned \ SystemCtr /\ GidOf[e] = g /\ HasItsGrant(e)
      BY <1>1, <2>1, <2>2 DEF Held
    <3> QED
      BY <2>1, <2>2, <3>1 DEF Pinned, HasItsGrant, Held
  <2>3. CASE grants'[g] # grants[g]
    BY <1>3, <2>1, <2>3, RebuildEffect DEF Pinned, IsRebuilt
  <2> QED
    BY <2>2, <2>3
<1>4. CASE UNCHANGED vars
  BY <1>1, <1>4 DEF vars, Held, HasItsGrant, Pinned
<1> QED
  BY <1>2, <1>3, <1>4
  DEF Next, RuntimeMayAct, RunPodSandbox, StopPodSandbox, RemovePodSandbox,
      CreateContainer, CreateContainerUnseen, StopContainer, RemoveContainer, Crash

LEMMA StepPinInvariant == PromptRemoval /\ PinInvariant /\ [Next]_vars => PinInvariant'
<1>1. PinInvariant => GrantInvariant
  BY DEF PinInvariant
<1> QED
  BY <1>1, StepGrantInvariant, StepNoDeadPredecessor, StepCpusetIsPool, StepRebuildDone,
     StepPinnedIsGranted, StepGrantIsRebuilt
  DEF PinInvariant

LEMMA InitPinInvariant == Init => PinInvariant
  BY InitGrantInvariant
  DEF Init, PolicyInit, PinInvariant, NoDeadPredecessor, CpusetIsPool, RebuildDone,
      PinnedIsGranted, GrantIsRebuilt, Pinned, Held

\* With prompt removal, once the agent is up every running container outside
\* kube-system that is confined to a pool holds the grant of its id there,
\* across restarts of the agent (AllocatePool, releasePool,
\* RebuildAllocationsFromCache).
THEOREM PinnedKeepsItsGrant == PromptRemoval /\ Spec => []PinnedHasGrant
<1>1. Init => PinInvariant
  BY InitPinInvariant
<1>2. PromptRemoval /\ PinInvariant /\ [Next]_vars => PinInvariant'
  BY StepPinInvariant
<1>3. PinInvariant => PinnedHasGrant
  <2> SUFFICES ASSUME PinInvariant, agent = "up", NEW c \in Pinned \ SystemCtr
               PROVE  HasItsGrant(c)
    BY DEF PinnedHasGrant, HasItsGrant
  <2> QED
    BY DEF PinInvariant, RebuildDone, PinnedIsGranted
<1>4. CASE PromptRemoval
  BY <1>1, <1>2, <1>3, <1>4, PTL DEF Spec
<1>5. CASE ~PromptRemoval
  BY <1>5
<1> QED
  BY <1>4, <1>5
--------------------------------------------------------------------------------
(***************************************************************************)
(* The agent implements PinnedPlacement.                                   *)
(*                                                                         *)
(* What runs confined to a pool is matched, container by container, with   *)
(* the grants charged to it: then the supplies, which decide, agree with   *)
(* the demand a node can observe.                                          *)
(***************************************************************************)

\* What the machine and the containers must be like for this.  Pools below the
\* root leave out some of the machine's CPUs; pools of the same CPUs (a socket
\* with one NUMA node, a NUMA node with one cluster) have the same memory; and
\* only BestEffort and kube-system containers ask for no CPU, for a rebuilt
\* grant of no CPU would be one of 2 milli-CPUs.
PlacementHypotheses ==
  /\ PromptRemoval
  /\ CpusOf[Root] # {}
  /\ \A p \in Pool \ {Root} : CpusOf[p] # CpusOf[Root]
  /\ \A p, q \in Pool : CpusOf[p] # {} /\ CpusOf[p] = CpusOf[q] => MemTotal[p] = MemTotal[q]
  /\ \A c \in Ctr \ (SystemCtr \cup BestEffortCtr) : RequestOf[c].cpu > 0

GrantIsPinned ==
  \A g \in Gid : Held(g) => \E c \in Pinned : GidOf[c] = g /\ HasItsGrant(c)

ConfinedByPolicy ==
  \A c \in Ctr : cpuset[c] # {} =>
    c \notin BestEffortCtr /\ (c \in SystemCtr => cpuset[c] = CpusOf[Root])

RunningFinite == IsFiniteSet({c \in Ctr : ctrs[c] = "running"})

PlacementInvariant ==
  /\ PinInvariant
  /\ GrantMatchesRequest
  /\ HeldFinite
  /\ Ledger
  /\ GrantIsPinned
  /\ ConfinedByPolicy
  /\ RunningFinite

\* The counters are sums of what was granted, so none is negative.
LEMMA SupplyIsNat ==
  ASSUME PolicyTypeOK, HeldFinite, Ledger, NEW p \in Pool
  PROVE  supply[p].byRequest \in Nat /\ supply[p].mem \in Nat
<1>1. IsFiniteSet(GrantsUnder(p)) /\ \A g \in GrantsUnder(p) : grants[g] \in Grant
  BY GrantsUnderFinite DEF GrantsUnder, PolicyTypeOK, Held
<1>2. Granted(grants, GrantsUnder(p)).cpu \in Nat /\ Granted(grants, GrantsUnder(p)).mem \in Nat
  BY ONLY <1>1, GrantedType
<1> QED
  BY <1>2 DEF Ledger

\* A pool that takes a container has CPUs.
LEMMA TakenPoolHasCpus ==
  ASSUME PlacementHypotheses, PlacementInvariant, NEW c \in Ctr, c \notin BestEffortCtr,
         NEW p \in Pool, IsPoolFor(RequestOf[c], c \in SystemCtr, p),
         SupplyAccepts(RequestOf[c], p)
  PROVE  CpusOf[p] # {}
<1>1. CASE p = Root
  BY <1>1 DEF PlacementHypotheses
<1>2. CASE p # Root
  <2>1. RequestOf[c].cpu > 0 /\ RequestOf[c].cpu \in Nat
    BY <1>2 DEF IsPoolFor, PlacementHypotheses, IsRequest
  <2>2. supply[p].byRequest \in Nat
    BY SupplyIsNat DEF PlacementInvariant, PinInvariant, GrantInvariant, TypeOK
  <2>3. CpusOf[p] = {} => TotalSharedCPU(p) = 0
    BY FS_EmptySet DEF TotalSharedCPU, MilliPerCpu
  <2> QED
    BY <2>1, <2>2, <2>3 DEF SupplyAccepts
<1> QED
  BY <1>1, <1>2

\* Whoever holds a grant runs on the CPUs of its pool.
LEMMA StepGrantIsPinned ==
  PlacementHypotheses /\ PlacementInvariant /\ [Next]_vars => GrantIsPinned'
<1> SUFFICES ASSUME PlacementHypotheses, PlacementInvariant, [Next]_vars, NEW g \in Gid, Held(g)'
             PROVE  \E d \in Ctr : (d \in Pinned)' /\ GidOf[d] = g /\ HasItsGrant(d)'
  BY DEF GrantIsPinned, Pinned
<1>0. TypeOK /\ OneRunningPerId /\ NoGrantWhileDown /\ GrantInvariant'
  BY StepGrantInvariant DEF PlacementInvariant, PinInvariant, GrantInvariant
<1>1. Held(g) => \E d \in Ctr : d \in Pinned /\ GidOf[d] = g /\ HasItsGrant(d)
  BY DEF PlacementInvariant, GrantIsPinned, Pinned
<1>2. ASSUME NEW c \in Ctr, CreateContainer(c)
      PROVE  \E d \in Ctr : (d \in Pinned)' /\ GidOf[d] = g /\ HasItsGrant(d)'
  <2>1. MayCreate(c)
    BY <1>2 DEF CreateContainer
  <2>2. ASSUME NEW cpus, Start(c, cpus), Held(g), grants'[g] = grants[g]
        PROVE  \E d \in Ctr : (d \in Pinned)' /\ GidOf[d] = g /\ HasItsGrant(d)'
    <3>1. PICK d \in Ctr : d \in Pinned /\ GidOf[d] = g /\ HasItsGrant(d)
      BY <1>1, <2>2
    <3>2. d # c
      BY <2>1, <3>1 DEF MayCreate, Pinned
    <3>3. ctrs'[d] = ctrs[d] /\ cpuset'[d] = cpuset[d]
      BY <1>0, <2>2, <3>2 DEF Start, TypeOK
    <3> QED
      BY <2>2, <3>1, <3>3 DEF Pinned, HasItsGrant, Held
  <2>3. CASE CreateUnpinned(c)
    BY <2>2, <2>3 DEF CreateUnpinned, policyVars, Held
  <2>4. ASSUME NEW p \in Pool, c \notin BestEffortCtr,
               IsPoolFor(RequestOf[c], c \in SystemCtr, p), SupplyAccepts(RequestOf[c], p),
               AllocatePool(GidOf[c], RequestOf[c], p), Start(c, CpusOf[p])
        PROVE  \E d \in Ctr : (d \in Pinned)' /\ GidOf[d] = g /\ HasItsGrant(d)'
    <3>1. grants' = [grants EXCEPT ![GidOf[c]] = GrantOf(RequestOf[c], p)]
      BY <2>4 DEF AllocatePool
    <3>2. CASE GidOf[c] = g
      <4>1. CpusOf[p] # {}
        BY <2>4, TakenPoolHasCpus
      <4>2. grants'[g] = GrantOf(RequestOf[c], p) /\ GrantOf(RequestOf[c], p).pool = p
        BY <1>0, <3>1, <3>2 DEF TypeOK, PolicyTypeOK, GrantOf
      <4>3. ctrs'[c] = "running" /\ cpuset'[c] = CpusOf[p]
        BY <1>0, <2>4 DEF Start, TypeOK
      <4> QED
        BY <3>2, <4>1, <4>2, <4>3 DEF Pinned, HasItsGrant
    <3>3. CASE GidOf[c] # g
      <4>1. grants'[g] = grants[g]
        BY <1>0, <3>1, <3>3 DEF TypeOK, PolicyTypeOK
      <4> QED
        BY <2>2, <2>4, <4>1 DEF Held
    <3> QED
      BY <3>2, <3>3
  <2> QED
    BY <1>2, <2>3, <2>4 DEF CreateContainer, CreatePinned
<1>3. ASSUME NEW c \in Ctr, StopContainer(c) \/ RemoveContainer(c)
      PROVE  \E d \in Ctr : (d \in Pinned)' /\ GidOf[d] = g /\ HasItsGrant(d)'
  <2>1. Held(g) /\ grants'[g] = grants[g]
    BY <1>0, <1>3, HookEffect DEF StopContainer, RemoveContainer, policyVars, Held
  <2>2. PICK d \in Ctr : d \in Pinned /\ GidOf[d] = g /\ HasItsGrant(d)
    BY <1>1, <2>1
  <2>3. PICK e \in Ctr : ctrs'[e] = "running" /\ GidOf[e] = g
    BY <1>0 DEF GrantInvariant, GrantIsReleasable, Running
  <2>4. ctrs[e] = "running" /\ UNCHANGED cpuset
    BY <1>0, <1>3, <2>3 DEF StopContainer, RemoveContainer, TypeOK
  <2>5. e = d
    BY <1>0, <2>2, <2>3, <2>4 DEF OneRunningPerId, Pinned
  <2> QED
    BY <2>1, <2>2, <2>3, <2>4, <2>5 DEF Pinned, HasItsGrant, Held
<1>4. ASSUME NEW c \in Ctr, RebuildNext(c)
      PROVE  \E d \in Ctr : (d \in Pinned)' /\ GidOf[d] = g /\ HasItsGrant(d)'
  <2>1. UNCHANGED <<ctrs, cpuset>>
    BY <1>4 DEF RebuildNext, runtimeVars
  <2>2. CASE Held(g) /\ grants'[g] = grants[g]
    BY <1>1, <2>1, <2>2 DEF Pinned, HasItsGrant, Held
  <2>3. CASE ~(Held(g) /\ grants'[g] = grants[g])
    BY <1>0, <1>4, <2>1, <2>3, RebuildEffect
    DEF PlacementInvariant, Pinned, IsRebuilt, Held
  <2> QED
    BY <2>2, <2>3
<1>5. CASE Crash
  BY <1>5 DEF Crash, Held
<1>6. CASE agent = "down" /\ UNCHANGED grants
  BY <1>0, <1>6 DEF NoGrantWhileDown, Held
<1>7. CASE UNCHANGED <<grants, ctrs, cpuset>>
  BY <1>1, <1>7 DEF Held, Pinned, HasItsGrant
<1> QED
  BY <1>2, <1>3, <1>4, <1>5, <1>6, <1>7
  DEF Next, vars, runtimeVars, policyVars, RunPodSandbox, StopPodSandbox, RemovePodSandbox,
      CreateContainerUnseen, Synchronize

\* The policy confines no BestEffort container, and a kube-system container to
\* the whole machine only.
LEMMA StepConfinedByPolicy == TypeOK /\ ConfinedByPolicy /\ [Next]_vars => ConfinedByPolicy'
<1> SUFFICES ASSUME TypeOK, ConfinedByPolicy, [Next]_vars PROVE ConfinedByPolicy'
  OBVIOUS
<1> USE DEF ConfinedByPolicy, TypeOK
<1>1. ASSUME NEW c \in Ctr, CreateContainer(c) PROVE ConfinedByPolicy'
  <2>1. CASE Start(c, {})
    BY <2>1 DEF Start
  <2>2. ASSUME NEW p \in Pool, c \notin BestEffortCtr, c \in SystemCtr => p = Root,
               Start(c, CpusOf[p])
        PROVE  ConfinedByPolicy'
    BY <2>2 DEF Start
  <2> QED
    BY <1>1, <2>1, <2>2 DEF CreateContainer, CreateUnpinned, CreatePinned, IsPoolFor
<1>2. ASSUME NEW c \in Ctr, CreateContainerUnseen(c) PROVE ConfinedByPolicy'
  BY <1>2 DEF CreateContainerUnseen, Start
<1>3. CASE UNCHANGED cpuset
  BY <1>3
<1> QED
  BY <1>1, <1>2, <1>3
  DEF Next, vars, runtimeVars, RunPodSandbox, StopPodSandbox, RemovePodSandbox, Crash,
      Synchronize, RebuildNext, StopContainer, RemoveContainer

\* At any time finitely many containers have been started and still run.
LEMMA StepRunningFinite == TypeOK /\ RunningFinite /\ [Next]_vars => RunningFinite'
<1> SUFFICES ASSUME TypeOK, RunningFinite, [Next]_vars PROVE RunningFinite'
  OBVIOUS
<1> DEFINE R == {c \in Ctr : ctrs[c] = "running"}
<1>1. ASSUME NEW c \in Ctr, ctrs' = [ctrs EXCEPT ![c] = "running"] PROVE RunningFinite'
  <2>1. R' \in SUBSET (R \cup {c})
    BY <1>1 DEF TypeOK
  <2>2. IsFiniteSet(R \cup {c})
    BY FS_AddElement DEF RunningFinite
  <2>3. IsFiniteSet(R')
    BY <2>1, <2>2, FS_Subset
  <2> QED
    BY <2>3 DEF RunningFinite
<1>2. ASSUME R' \subseteq R PROVE RunningFinite'
  <2>1. IsFiniteSet(R')
    BY <1>2, FS_Subset DEF RunningFinite
  <2> QED
    BY <2>1 DEF RunningFinite
<1>3. ASSUME NEW c \in Ctr, CreateContainer(c) \/ CreateContainerUnseen(c) PROVE RunningFinite'
  BY <1>1, <1>3, CreateCases DEF CreateContainer, CreateContainerUnseen, Start
<1>4. ASSUME NEW c \in Ctr, StopContainer(c) \/ RemoveContainer(c) PROVE RunningFinite'
  <2>1. R' \subseteq R
    BY <1>4 DEF StopContainer, RemoveContainer, TypeOK
  <2> QED
    BY <1>2, <2>1
<1>5. CASE UNCHANGED ctrs
  BY <1>5 DEF RunningFinite
<1> QED
  BY <1>3, <1>4, <1>5
  DEF Next, vars, runtimeVars, RunPodSandbox, StopPodSandbox, RemovePodSandbox, Crash,
      Synchronize, RebuildNext

LEMMA InitPlacementInvariant == Init => PlacementInvariant
<1> SUFFICES ASSUME Init PROVE PlacementInvariant
  OBVIOUS
<1>1. PinInvariant /\ HeldFinite /\ Ledger
  BY InitPinInvariant, EmptyLedger DEF Init
<1>2. GrantMatchesRequest /\ GrantIsPinned /\ ConfinedByPolicy
  BY DEF Init, PolicyInit, GrantMatchesRequest, GrantIsPinned, ConfinedByPolicy, Held
<1>3. {c \in Ctr : ctrs[c] = "running"} = {}
  BY DEF Init
<1>4. RunningFinite
  BY <1>3, FS_EmptySet DEF RunningFinite
<1> QED
  BY <1>1, <1>2, <1>4 DEF PlacementInvariant

LEMMA StepPlacementInvariant ==
  PlacementHypotheses /\ PlacementInvariant /\ [Next]_vars => PlacementInvariant'
<1> SUFFICES ASSUME PlacementHypotheses, PlacementInvariant, [Next]_vars
             PROVE  PlacementInvariant'
  OBVIOUS
<1>1. PinInvariant /\ GrantInvariant /\ TypeOK /\ PromptRemoval
  BY DEF PlacementInvariant, PinInvariant, GrantInvariant, PlacementHypotheses
<1>2. PinInvariant'
  BY <1>1, StepPinInvariant
<1>3. (GrantMatchesRequest /\ HeldFinite /\ Ledger)'
  BY <1>1, StepGrantMatches, StepLedger DEF PlacementInvariant
<1>4. (GrantIsPinned /\ ConfinedByPolicy /\ RunningFinite)'
  BY <1>1, StepGrantIsPinned, StepConfinedByPolicy, StepRunningFinite DEF PlacementInvariant
<1> QED
  BY <1>2, <1>3, <1>4 DEF PlacementInvariant

\* What PinnedPlacement says, in the agent's terms.
InsideOf(p) == {c \in Pinned : cpuset[c] \subseteq CpusOf[p]}

CpuDemand(p) == SumFunction([c \in InsideOf(p) |-> RequestOf[c].cpu])

MemoryDemand(p) == SumFunction([c \in InsideOf(p) |-> RequestOf[c].mem])

LEMMA PlacementSums == ASSUME NEW f PROVE Placement!SumFunction(f) = SumFunction(f)
<1>1. Placement!SumFunctionOnSet(f, DOMAIN f) = (CHOOSE it : IsSum(it, f, DOMAIN f))[DOMAIN f]
  BY Zenon
  DEF Placement!SumFunctionOnSet, Placement!FoldFunctionOnSet, Placement!MapThenFoldSet,
      IsSum, AnyOf
<1>2. Placement!SumFunctionOnSet(f, DOMAIN f) = SumFunctionOnSet(f, DOMAIN f)
  BY <1>1, SumIsChosen
<1> QED
  BY <1>2 DEF Placement!SumFunction, SumFunction

LEMMA PlacementDemand ==
  ASSUME NEW p \in Pool
  PROVE  /\ Placement!Inside(p) = InsideOf(p)
         /\ Placement!Demand(p) = CpuDemand(p)
         /\ Placement!MemDemand(p) = MemoryDemand(p)
         /\ Placement!TotalSharedCPU(p) = TotalSharedCPU(p)
<1>1. Placement!Inside(p) = InsideOf(p)
  BY DEF Placement!Inside, InsideOf, Pinned
<1>2. ASSUME NEW S PROVE Placement!Cardinality(S) = Cardinality(S)
  BY Zenon DEF Placement!Cardinality, Cardinality
<1>3. Placement!TotalSharedCPU(p) = TotalSharedCPU(p)
  BY <1>2 DEF TotalSharedCPU, Placement!TotalSharedCPU, MilliPerCpu, Placement!MilliPerCpu
<1>4. Placement!Demand(p) = CpuDemand(p) /\ Placement!MemDemand(p) = MemoryDemand(p)
  BY <1>1, PlacementSums
  DEF Placement!Demand, Placement!MemDemand, CpuDemand, MemoryDemand
<1> QED
  BY <1>1, <1>3, <1>4

LEMMA PlacementRoom ==
  ASSUME NEW p \in Pool, NEW req
  PROVE  Placement!HasRoom(p, req) <=>
           /\ CpuDemand(p) + req.cpu <= TotalSharedCPU(p)
           /\ (EnforceMemory /\ req.mem > 0) => MemoryDemand(p) + req.mem <= MemTotal[p]
  BY PlacementDemand DEF Placement!HasRoom

\* The containers that hold the grants charged to a pool.
Charged(p) == {c \in Pinned : Held(GidOf[c]) /\ p \in Path[grants[GidOf[c]].pool]}

\* They run inside the pool.
LEMMA ChargedInside ==
  ASSUME PlacementInvariant, NEW p \in Pool
  PROVE  /\ Charged(p) \subseteq InsideOf(p)
         /\ \A g \in GrantsUnder(p) : \E c \in Charged(p) : GidOf[c] = g
<1>0. TypeOK /\ OneRunningPerId /\ GrantIsPinned
  BY DEF PlacementInvariant, PinInvariant, GrantInvariant
<1>1. ASSUME NEW c \in Charged(p) PROVE c \in InsideOf(p)
  <2>1. c \in Ctr /\ c \in Pinned /\ GidOf[c] \in Gid /\ Held(GidOf[c])
    BY DEF Charged, Pinned
  <2>2. PICK d \in Pinned : GidOf[d] = GidOf[c] /\ HasItsGrant(d)
    BY <1>0, <2>1 DEF GrantIsPinned
  <2>3. HasItsGrant(c)
    BY <1>0, <2>1, <2>2 DEF OneRunningPerId, Pinned
  <2>4. grants[GidOf[c]].pool \in Pool
    BY <1>0, <2>1 DEF TypeOK, PolicyTypeOK, Held, Grant
  <2>5. CpusOf[grants[GidOf[c]].pool] \subseteq CpusOf[p]
    BY <2>4 DEF Charged
  <2> QED
    BY <2>1, <2>3, <2>5 DEF InsideOf, HasItsGrant
<1>2. ASSUME NEW g \in GrantsUnder(p) PROVE \E c \in Charged(p) : GidOf[c] = g
  BY <1>0 DEF GrantsUnder, GrantIsPinned, Charged
<1> QED
  BY <1>1, <1>2

\* A grant and the request of the container behind it are the same amounts.
LEMMA ChargedAmounts ==
  ASSUME PlacementHypotheses, PlacementInvariant, NEW p \in Pool, NEW c \in Charged(p)
  PROVE  /\ GidOf[c] \in GrantsUnder(p)
         /\ grants[GidOf[c]].cpu = RequestOf[c].cpu
         /\ grants[GidOf[c]].mem = RequestOf[c].mem
<1>1. /\ c \in Ctr /\ ctrs[c] = "running" /\ cpuset[c] # {} /\ Held(GidOf[c])
      /\ GidOf[c] \in GrantsUnder(p)
  BY DEF Charged, Pinned, GrantsUnder
<1>2. Matches(grants[GidOf[c]], c)
  BY <1>1 DEF PlacementInvariant, GrantMatchesRequest, Running, Matches
<1>3. ~(c \notin SystemCtr /\ RequestOf[c].cpu = 0)
  BY <1>1 DEF PlacementInvariant, ConfinedByPolicy, PlacementHypotheses
<1>4. RequestOf[c].cpu # 0 \/ c \in SystemCtr
  BY <1>1, <1>3
<1>5. /\ grants[GidOf[c]].cpu = RequestOf[c].cpu
      /\ grants[GidOf[c]].mem = RequestOf[c].mem
  BY <1>1, <1>2, <1>4 DEF Matches, Recovers, GrantOf
<1> QED
  BY <1>1, <1>5

LEMMA InsideFinite ==
  ASSUME RunningFinite, NEW p \in Pool
  PROVE  /\ IsFiniteSet(InsideOf(p))
         /\ \A c \in InsideOf(p) : RequestOf[c].cpu \in Nat /\ RequestOf[c].mem \in Nat
<1>1. InsideOf(p) \in SUBSET {c \in Ctr : ctrs[c] = "running"}
  BY DEF InsideOf, Pinned
<1>2. IsFiniteSet(InsideOf(p))
  BY <1>1, FS_Subset DEF RunningFinite
<1> QED
  BY <1>2 DEF InsideOf, Pinned, IsRequest

\* So a supply is the sum of the requests charged to it.
LEMMA SupplyIsCharged ==
  ASSUME PlacementHypotheses, PlacementInvariant, NEW p \in Pool
  PROVE  /\ supply[p].byRequest = SumFunction([c \in Charged(p) |-> RequestOf[c].cpu])
         /\ supply[p].mem = SumFunction([c \in Charged(p) |-> RequestOf[c].mem])
<1>1. /\ IsFiniteSet(Charged(p))
      /\ \A c \in Charged(p) : c \in Ctr /\ RequestOf[c].cpu \in Nat /\ RequestOf[c].mem \in Nat
  <2>1. Charged(p) \in SUBSET InsideOf(p)
    BY ChargedInside
  <2>2. IsFiniteSet(InsideOf(p))
    BY InsideFinite DEF PlacementInvariant
  <2>3. IsFiniteSet(Charged(p))
    BY <2>1, <2>2, FS_Subset
  <2> QED
    BY <2>3 DEF Charged, Pinned, IsRequest
<1>2. IsFiniteSet(GrantsUnder(p))
  BY GrantsUnderFinite DEF PlacementInvariant
<1>3. \A c, d \in Charged(p) : GidOf[c] = GidOf[d] => c = d
  BY DEF PlacementInvariant, PinInvariant, GrantInvariant, OneRunningPerId, Charged, Pinned
<1>4. \A g \in GrantsUnder(p) : \E c \in Charged(p) : GidOf[c] = g
  BY ChargedInside
<1>5. \A c \in Charged(p) : /\ GidOf[c] \in GrantsUnder(p)
                            /\ grants[GidOf[c]].cpu = RequestOf[c].cpu
                            /\ grants[GidOf[c]].mem = RequestOf[c].mem
  BY ChargedAmounts
<1>6. SumFunction([c \in Charged(p) |-> RequestOf[c].cpu])
        = SumFunction([g \in GrantsUnder(p) |-> grants[g].cpu])
  <2> DEFINE f == [c \in Charged(p) |-> RequestOf[c].cpu]
             h == [g \in GrantsUnder(p) |-> grants[g].cpu]
  <2>1. DOMAIN f = Charged(p) /\ DOMAIN h = GrantsUnder(p)
    OBVIOUS
  <2>2. \A c \in DOMAIN f : f[c] \in Int
    BY <1>1
  <2>3. \A c \in DOMAIN f : GidOf[c] \in DOMAIN h /\ h[GidOf[c]] = f[c]
    BY <1>5
  <2>4. SumFunction(f) = SumFunction(h)
    <3> HIDE DEF f, h
    <3> QED
      BY ONLY <1>1, <1>2, <1>3, <1>4, <2>1, <2>2, <2>3, TotalMoved
  <2> QED
    BY <2>4
<1>7. SumFunction([c \in Charged(p) |-> RequestOf[c].mem])
        = SumFunction([g \in GrantsUnder(p) |-> grants[g].mem])
  <2> DEFINE f == [c \in Charged(p) |-> RequestOf[c].mem]
             h == [g \in GrantsUnder(p) |-> grants[g].mem]
  <2>1. DOMAIN f = Charged(p) /\ DOMAIN h = GrantsUnder(p)
    OBVIOUS
  <2>2. \A c \in DOMAIN f : f[c] \in Int
    BY <1>1
  <2>3. \A c \in DOMAIN f : GidOf[c] \in DOMAIN h /\ h[GidOf[c]] = f[c]
    BY <1>5
  <2>4. SumFunction(f) = SumFunction(h)
    <3> HIDE DEF f, h
    <3> QED
      BY ONLY <1>1, <1>2, <1>3, <1>4, <2>1, <2>2, <2>3, TotalMoved
  <2> QED
    BY <2>4
<1> QED
  BY <1>6, <1>7 DEF PlacementInvariant, Ledger, Granted

\* No supply counts more than what runs inside the pool asks for.  (The root's
\* may count less: after a restart kube-system containers hold no grant.)
LEMMA SupplyWithinDemand ==
  ASSUME PlacementHypotheses, PlacementInvariant, NEW p \in Pool
  PROVE  /\ supply[p].byRequest <= CpuDemand(p) /\ supply[p].mem <= MemoryDemand(p)
         /\ CpuDemand(p) \in Nat /\ MemoryDemand(p) \in Nat
<1> DEFINE Cpu(S) == [c \in S |-> RequestOf[c].cpu]
           Mem(S) == [c \in S |-> RequestOf[c].mem]
<1>1. /\ IsFiniteSet(InsideOf(p)) /\ Charged(p) \in SUBSET InsideOf(p)
      /\ \A c \in InsideOf(p) : RequestOf[c].cpu \in Nat /\ RequestOf[c].mem \in Nat
  BY InsideFinite, ChargedInside DEF PlacementInvariant
<1>2. SumFunction(Cpu(Charged(p))) <= SumFunction(Cpu(InsideOf(p)))
  <2>1. /\ DOMAIN Cpu(Charged(p)) = Charged(p) /\ DOMAIN Cpu(InsideOf(p)) = InsideOf(p)
        /\ \A c \in InsideOf(p) : Cpu(InsideOf(p))[c] \in Nat
        /\ \A c \in Charged(p) : Cpu(Charged(p))[c] = Cpu(InsideOf(p))[c]
    BY <1>1
  <2> HIDE DEF Cpu
  <2> QED
    BY ONLY <1>1, <2>1, FewerSum
<1>3. SumFunction(Mem(Charged(p))) <= SumFunction(Mem(InsideOf(p)))
  <2>1. /\ DOMAIN Mem(Charged(p)) = Charged(p) /\ DOMAIN Mem(InsideOf(p)) = InsideOf(p)
        /\ \A c \in InsideOf(p) : Mem(InsideOf(p))[c] \in Nat
        /\ \A c \in Charged(p) : Mem(Charged(p))[c] = Mem(InsideOf(p))[c]
    BY <1>1
  <2> HIDE DEF Mem
  <2> QED
    BY ONLY <1>1, <2>1, FewerSum
<1>4. CpuDemand(p) \in Nat /\ MemoryDemand(p) \in Nat
  <2>1. SumFunctionOnSet(Cpu(InsideOf(p)), InsideOf(p)) \in Nat
    BY <1>1, SumIsNat
  <2>2. SumFunctionOnSet(Mem(InsideOf(p)), InsideOf(p)) \in Nat
    BY <1>1, SumIsNat
  <2> QED
    BY <2>1, <2>2 DEF CpuDemand, MemoryDemand, SumFunction
<1> QED
  BY <1>2, <1>3, <1>4, SupplyIsCharged DEF CpuDemand, MemoryDemand

\* Pool r is the topmost of the pools with its CPUs.
Topmost(r) == \A q \in Path[r] : CpusOf[q] = CpusOf[r] => q = r

LEMMA TopmostTwin ==
  ASSUME NEW p \in Pool
  PROVE  \E r \in Path[p] : CpusOf[r] = CpusOf[p] /\ Topmost(r)
<1> DEFINE Twins == {q \in Path[p] : CpusOf[q] = CpusOf[p]}
           Paths == {Path[q] : q \in Twins}
<1>1. PICK s \in Paths : \A u \in SUBSET s : u # s => u \notin Paths
  <2>1. Paths \in SUBSET (SUBSET Path[p]) /\ Paths # {} /\ IsFiniteSet(Path[p])
    <3>1. p \in Twins /\ \A q \in Twins : Path[q] \in SUBSET Path[p]
      BY ONLY PathsLeadToRoot
    <3> HIDE DEF Twins
    <3> QED
      BY ONLY <3>1, PoolResources
  <2> HIDE DEF Paths
  <2> QED
    BY ONLY <2>1, SmallestSet
<1>2. PICK r \in Twins : s = Path[r]
  OBVIOUS
<1>3. ASSUME NEW q \in Path[r], CpusOf[q] = CpusOf[r] PROVE q = r
  <2>1. q \in Pool /\ q \in Twins /\ Path[q] \subseteq Path[r]
    BY <1>2, <1>3
  <2>2. Path[q] = Path[r]
    BY <1>1, <1>2, <2>1
  <2> QED
    BY <1>2, <2>1, <2>2
<1> QED
  BY <1>2, <1>3 DEF Topmost

\* Below the root, and while the agent serves, the supply of a topmost pool is
\* all that runs inside it: the check of the supply is a check of the machine.
LEMMA DemandIsSupply ==
  ASSUME PlacementHypotheses, PlacementInvariant, agent = "up", NEW p \in Pool \ {Root},
         Topmost(p)
  PROVE  CpuDemand(p) = supply[p].byRequest /\ MemoryDemand(p) = supply[p].mem
<1>0. TypeOK
  BY DEF PlacementInvariant, PinInvariant, GrantInvariant
<1>1. ASSUME NEW c \in InsideOf(p) PROVE c \in Charged(p)
  <2>1. c \in Ctr /\ c \in Pinned /\ cpuset[c] # {} /\ cpuset[c] \subseteq CpusOf[p]
    BY DEF InsideOf, Pinned
  <2>2. c \notin SystemCtr
    <3>1. CpusOf[p] # CpusOf[Root] /\ CpusOf[p] \subseteq CpusOf[Root]
      BY PoolCpusInRoot DEF PlacementHypotheses
    <3> QED
      BY <2>1, <3>1 DEF PlacementInvariant, ConfinedByPolicy
  <2>3. HasItsGrant(c)
    BY <2>1, <2>2 DEF PlacementInvariant, PinInvariant, RebuildDone, PinnedIsGranted
  <2>4. PICK q \in Pool : grants[GidOf[c]].pool = q /\ CpusOf[q] = cpuset[c]
    <3>1. GidOf[c] \in Gid
      BY <2>1
    <3>2. grants[GidOf[c]] \in Grant
      BY <1>0, <2>3, <3>1 DEF HasItsGrant, Held, TypeOK, PolicyTypeOK
    <3>3. grants[GidOf[c]].pool \in Pool
      BY <3>2 DEF Grant
    <3> QED
      BY <2>3, <3>3 DEF HasItsGrant
  <2>5. p \in Path[q] \/ q \in Path[p]
    <3>1. CpusOf[p] \cap CpusOf[q] # {}
      BY <2>1, <2>4
    <3> QED
      BY ONLY <3>1, PoolResources
  <2>6. q \in Path[p] => CpusOf[q] = CpusOf[p]
    <3>1. q \in Path[p] => CpusOf[p] \subseteq CpusOf[q]
      OBVIOUS
    <3> QED
      BY <2>1, <2>4, <3>1
  <2>7. p \in Path[q]
    BY <2>5, <2>6 DEF Topmost
  <2> QED
    BY <2>1, <2>3, <2>4, <2>7 DEF Charged, HasItsGrant
<1>2. InsideOf(p) = Charged(p)
  BY <1>1, ChargedInside
<1> QED
  BY <1>2, SupplyIsCharged DEF CpuDemand, MemoryDemand

\* What the two capacity checks of the policy ask of one pool.
Accepts(q, req) ==
  /\ supply[q].byRequest + req.cpu <= TotalSharedCPU(q)
  /\ (EnforceMemory /\ req.mem > 0) => supply[q].mem + req.mem <= MemTotal[q]

LEMMA ChecksOfThePolicy ==
  ASSUME PolicyTypeOK, NEW req, IsRequest(req), NEW p \in Pool
  PROVE  /\ HasCapacity(supply, req, p) <=> \A q \in Path[p] \ {Root} : Accepts(q, req)
         /\ SupplyAccepts(req, p) <=> Accepts(p, req)
<1>1. ASSUME NEW q \in Pool
      PROVE  /\ supply[q].byRequest \in Int /\ supply[q].mem \in Nat
             /\ TotalSharedCPU(q) \in Nat /\ MemTotal[q] \in Nat
  BY TotalIsNat DEF PolicyTypeOK, Supply
<1>2. req.cpu \in Nat /\ req.mem \in Nat
  BY DEF IsRequest
<1>3. ASSUME NEW q \in Pool
      PROVE  /\ AllocatableCPUByRequest(supply, q) - req.cpu >= 0
                   <=> supply[q].byRequest + req.cpu <= TotalSharedCPU(q)
             /\ req.mem > 0 => (AllocatableMemory(supply, q) >= req.mem
                                  <=> supply[q].mem + req.mem <= MemTotal[q])
  BY <1>1, <1>2 DEF AllocatableCPUByRequest, AllocatableMemory
<1>4. SupplyAccepts(req, p) <=> Accepts(p, req)
  BY <1>1, <1>2, <1>3 DEF SupplyAccepts, Accepts
<1>5. CpuFits(supply, req, p) <=>
        \A q \in Path[p] \ {Root} : supply[q].byRequest + req.cpu <= TotalSharedCPU(q)
  BY <1>3 DEF CpuFits, BelowRoot
<1>6. MemoryFits(supply, req, p) <=>
        \A q \in Path[p] \ {Root} : req.mem > 0 => supply[q].mem + req.mem <= MemTotal[q]
  BY <1>2, <1>3 DEF MemoryFits, BelowRoot
<1> QED
  BY <1>4, <1>5, <1>6 DEF HasCapacity, Accepts

\* A pool whose supply refuses has no room for what runs inside it.
LEMMA UnacceptedHasNoRoom ==
  ASSUME PlacementHypotheses, PlacementInvariant, NEW c \in Ctr, NEW p \in Pool,
         ~Accepts(p, RequestOf[c])
  PROVE  ~Placement!HasRoom(p, RequestOf[c])
<1>1. /\ supply[p].byRequest <= CpuDemand(p) /\ supply[p].mem <= MemoryDemand(p)
      /\ CpuDemand(p) \in Nat /\ MemoryDemand(p) \in Nat
  BY SupplyWithinDemand
<1>2. supply[p].byRequest \in Nat /\ supply[p].mem \in Nat
  BY SupplyIsNat DEF PlacementInvariant, PinInvariant, GrantInvariant, TypeOK
<1>3. /\ RequestOf[c].cpu \in Nat /\ RequestOf[c].mem \in Nat
      /\ TotalSharedCPU(p) \in Nat /\ MemTotal[p] \in Nat
  BY TotalIsNat DEF IsRequest
<1> QED
  BY <1>1, <1>2, <1>3, PlacementRoom DEF Accepts

\* A container that starts, as PinnedPlacement sees it.
LEMMA StartImplements ==
  ASSUME TypeOK, NEW c \in Ctr, ctrs[c] = "none", NEW cpus, Start(c, cpus), agent' = agent
  PROVE  Placement!Start(c, cpus)
<1>1. /\ ctrs' = [ctrs EXCEPT ![c] = "running"] /\ cpuset' = [cpuset EXCEPT ![c] = cpus]
      /\ ctrs \in [Ctr -> {"none", "running", "exited", "removed"}]
      /\ cpuset \in [Ctr -> SUBSET CpusOf[Root]]
  BY DEF Start, TypeOK
<1>2. {d \in Ctr : ctrs'[d] # "none"} = {d \in Ctr : ctrs[d] # "none"} \cup {c}
  BY <1>1
<1>3. [d \in Ctr |-> IF ctrs'[d] = "running" THEN cpuset'[d] ELSE {}]
        = [[d \in Ctr |-> IF ctrs[d] = "running" THEN cpuset[d] ELSE {}] EXCEPT ![c] = cpus]
  BY <1>1
<1> QED
  BY <1>2, <1>3 DEF Placement!Start

\* A pool the policy finds fit can take the container,
LEMMA FitPoolCouldTake ==
  ASSUME PlacementHypotheses, PlacementInvariant, agent = "up", NEW c \in Ctr,
         c \notin SystemCtr \cup BestEffortCtr, NEW p \in Pool,
         HasCapacity(supply, RequestOf[c], p)
  PROVE  Placement!CouldTake(p, RequestOf[c])
<1>0. TypeOK /\ PolicyTypeOK /\ HeldFinite /\ Ledger
  BY DEF PlacementInvariant, PinInvariant, GrantInvariant, TypeOK
<1>1. ASSUME NEW q \in Path[p] \ {Root} PROVE Placement!HasRoom(q, RequestOf[c])
  <2>1. q \in Pool /\ \A r \in Path[p] \ {Root} : Accepts(r, RequestOf[c])
    BY <1>0, ChecksOfThePolicy
  <2>2. CpusOf[q] # {}
    <3>1. RequestOf[c].cpu > 0 /\ RequestOf[c].cpu \in Nat
      BY DEF PlacementHypotheses, IsRequest
    <3>2. supply[q].byRequest \in Nat
      BY <1>0, <2>1, SupplyIsNat
    <3>3. CpusOf[q] = {} => TotalSharedCPU(q) = 0
      BY FS_EmptySet DEF TotalSharedCPU, MilliPerCpu
    <3>4. supply[q].byRequest + RequestOf[c].cpu <= TotalSharedCPU(q)
      BY <2>1 DEF Accepts
    <3> QED
      BY ONLY <3>1, <3>2, <3>3, <3>4
  <2>3. PICK r \in Path[q] : CpusOf[r] = CpusOf[q] /\ Topmost(r)
    BY <2>1, TopmostTwin
  <2>4. r \in Pool \ {Root} /\ r \in Path[p]
    BY <2>1, <2>3 DEF PlacementHypotheses
  <2>5. /\ CpuDemand(q) = supply[r].byRequest /\ MemoryDemand(q) = supply[r].mem
        /\ TotalSharedCPU(q) = TotalSharedCPU(r) /\ MemTotal[q] = MemTotal[r]
    <3>1. CpuDemand(r) = supply[r].byRequest /\ MemoryDemand(r) = supply[r].mem
      BY <2>3, <2>4, DemandIsSupply
    <3>2. InsideOf(q) = InsideOf(r)
      BY <2>3 DEF InsideOf
    <3>3. MemTotal[q] = MemTotal[r]
      BY <2>1, <2>2, <2>3, <2>4 DEF PlacementHypotheses
    <3> QED
      BY <2>3, <3>1, <3>2, <3>3 DEF CpuDemand, MemoryDemand, TotalSharedCPU
  <2>6. Accepts(r, RequestOf[c])
    BY <2>1, <2>4
  <2> QED
    BY <2>1, <2>5, <2>6, PlacementRoom DEF Accepts
<1> QED
  BY <1>1 DEF Placement!CouldTake

\* one it finds unfit cannot,
LEMMA UnfitPoolCouldNotTake ==
  ASSUME PlacementHypotheses, PlacementInvariant, NEW c \in Ctr, NEW p \in Pool,
         ~HasCapacity(supply, RequestOf[c], p)
  PROVE  ~Placement!CouldTake(p, RequestOf[c])
<1>0. TypeOK /\ PolicyTypeOK /\ IsRequest(RequestOf[c])
  BY DEF PlacementInvariant, PinInvariant, GrantInvariant, TypeOK
<1>1. PICK q \in Path[p] \ {Root} : ~Accepts(q, RequestOf[c])
  BY <1>0, ChecksOfThePolicy
<1>2. ~Placement!HasRoom(q, RequestOf[c])
  BY <1>1, UnacceptedHasNoRoom
<1> QED
  BY <1>1, <1>2 DEF Placement!CouldTake

\* and when the policy has no pool but the root to try, none could.
LEMMA RootIsLastResort ==
  ASSUME PlacementHypotheses, PlacementInvariant, NEW c \in Ctr, c \notin SystemCtr,
         IsPoolFor(RequestOf[c], c \in SystemCtr, Root), NEW p \in Pool \ {Root}
  PROVE  ~Placement!CouldTake(p, RequestOf[c])
<1>1. Root \in FilteredPools(supply, RequestOf[c])
  BY DEF IsPoolFor, IsBestPool, IsGpuChoice, IsRegularChoice, IsFirst, GpuPools, DeepestOf
<1>2. ~HasCapacity(supply, RequestOf[c], p)
  BY <1>1 DEF FilteredPools
<1> QED
  BY <1>2, UnfitPoolCouldNotTake

\* Every creation of a container is one that PinnedPlacement allows.
LEMMA CreateImplements ==
  ASSUME PlacementHypotheses, PlacementInvariant, NEW c \in Ctr, CreateContainer(c)
  PROVE  Placement!Next
<1>0. TypeOK /\ PolicyTypeOK /\ agent = "up" /\ agent' = "up" /\ ctrs[c] = "none"
      /\ IsRequest(RequestOf[c])
  BY DEF PlacementInvariant, PinInvariant, GrantInvariant, TypeOK, CreateContainer, MayCreate,
         RuntimeMayAct
<1>1. ASSUME NEW cpus, Start(c, cpus) PROVE Placement!Start(c, cpus)
  BY <1>0, <1>1, StartImplements
<1>2. CASE CreateUnpinned(c)
  <2>1. Placement!Start(c, {})
    BY <1>1, <1>2 DEF CreateUnpinned
  <2>2. CASE c \in BestEffortCtr
    BY <2>1, <2>2 DEF Placement!Next, Placement!StartUnconfined
  <2>3. ASSUME NEW p \in Pool, c \notin BestEffortCtr,
               IsPoolFor(RequestOf[c], c \in SystemCtr, p), ~SupplyAccepts(RequestOf[c], p)
        PROVE  Placement!Next
    <3>1. p = Root
      <4>1. p = Root \/ HasCapacity(supply, RequestOf[c], p)
        BY <2>3, SelectedPoolIsFiltered DEF IsPoolFor
      <4>2. p # Root /\ HasCapacity(supply, RequestOf[c], p) => SupplyAccepts(RequestOf[c], p)
        BY <1>0, ChecksOfThePolicy
      <4> QED
        BY <2>3, <4>1, <4>2
    <3>2. ~Placement!HasRoom(Root, RequestOf[c])
      <4>1. ~Accepts(Root, RequestOf[c])
        BY <1>0, <2>3, <3>1, ChecksOfThePolicy
      <4> QED
        BY <4>1, UnacceptedHasNoRoom
    <3> QED
      BY <2>1, <3>2 DEF Placement!Next, Placement!StartUnconfined
  <2> QED
    BY <1>2, <2>2, <2>3 DEF CreateUnpinned
<1>3. ASSUME NEW p \in Pool, c \notin BestEffortCtr,
             IsPoolFor(RequestOf[c], c \in SystemCtr, p), Start(c, CpusOf[p])
      PROVE  Placement!Next
  <2>1. Placement!Start(c, CpusOf[p])
    BY <1>1, <1>3
  <2>2. CASE p = Root
    <3>1. c \in SystemCtr \/ \A q \in Pool \ {Root} : ~Placement!CouldTake(q, RequestOf[c])
      BY <1>3, <2>2, RootIsLastResort
    <3> QED
      BY <1>0, <1>3, <2>1, <2>2, <3>1 DEF Placement!Next, Placement!StartAtRoot
  <2>3. CASE p # Root
    <3>1. c \notin SystemCtr /\ HasCapacity(supply, RequestOf[c], p)
      BY <1>3, <2>3, SelectedPoolIsFiltered DEF IsPoolFor
    <3>2. Placement!CouldTake(p, RequestOf[c])
      BY <1>0, <1>3, <3>1, FitPoolCouldTake
    <3> QED
      BY <1>0, <1>3, <2>1, <2>3, <3>1, <3>2 DEF Placement!Next, Placement!StartInPool
  <2> QED
    BY <2>2, <2>3
<1> QED
  BY <1>2, <1>3 DEF CreateContainer, CreatePinned

\* Every step of the agent and the runtime is a step of PinnedPlacement, or
\* changes nothing that it sees.
LEMMA StepImplements ==
  PlacementHypotheses /\ PlacementInvariant /\ [Next]_vars
    => [Placement!Next]_(Placement!placementVars)
<1> SUFFICES ASSUME PlacementHypotheses, PlacementInvariant, [Next]_vars
             PROVE  Placement!Next \/ UNCHANGED Placement!placementVars
  OBVIOUS
<1>0. TypeOK
  BY DEF PlacementInvariant, PinInvariant, GrantInvariant
<1>1. ASSUME NEW c \in Ctr, CreateContainer(c) PROVE Placement!Next
  BY <1>1, CreateImplements
<1>2. ASSUME NEW c \in Ctr, CreateContainerUnseen(c) PROVE Placement!Next
  <2>1. Placement!Start(c, {})
    BY <1>0, <1>2, StartImplements DEF CreateContainerUnseen, RuntimeMayAct, MayCreate
  <2> QED
    BY <1>2, <2>1 DEF CreateContainerUnseen, Placement!Next, Placement!StartUnconfined
<1>3. ASSUME NEW c \in Ctr, StopContainer(c) PROVE Placement!Next
  <2>1. Placement!End(c)
    BY <1>0, <1>3 DEF StopContainer, RuntimeMayAct, Placement!End, TypeOK
  <2> QED
    BY <2>1 DEF Placement!Next
<1>4. ASSUME NEW c \in Ctr, RemoveContainer(c) PROVE UNCHANGED Placement!placementVars
  BY <1>0, <1>4 DEF RemoveContainer, RuntimeMayAct, Placement!placementVars, TypeOK
<1>5. CASE UNCHANGED <<ctrs, cpuset>>
  <2>1. Placement!Serving
    BY <1>5 DEF Placement!Serving
  <2> QED
    BY <2>1 DEF Placement!Next
<1> QED
  BY <1>1, <1>2, <1>3, <1>4, <1>5
  DEF Next, vars, runtimeVars, RunPodSandbox, StopPodSandbox, RemovePodSandbox, Crash,
      Synchronize, RebuildNext

\* The NRI agent keeps the promise a node can observe: what it confines to a
\* pool the pool and its ancestors have room for, it falls back to the whole
\* machine only when no pool has, and it leaves a container alone only when the
\* machine has no room, across restarts of containers, pods and the agent.
THEOREM AgentImplementsPlacement ==
  PlacementHypotheses /\ Spec => ImplementsPlacement
<1>1. Init => Placement!Init
  BY DEF Init, Placement!Init
<1>2. CASE PlacementHypotheses
  BY <1>1, <1>2, InitPlacementInvariant, StepPlacementInvariant, StepImplements, PTL
  DEF Spec, ImplementsPlacement, Placement!Spec
<1>3. CASE ~PlacementHypotheses
  BY <1>3
<1> QED
  BY <1>2, <1>3
===================================================================================
