---------------------------- MODULE DockerProxy_proofs ----------------------------
(***************************************************************************)
(* Theorems about the docker proxy, with either policy, for every machine, *)
(* every set of pods and containers and every number of faults.            *)
(***************************************************************************)
EXTENDS DockerProxy, TopologyAwarePolicy_proofs

USE PoolsAreNodeIDs, PathsLeadToRoot, PoolResources, NoGrantIsNoGrant, DockerObjects, NumaNodes

\* What the hooks read for a container is a request.
LEMMA RequestsOfCtrs == \A c \in Ctr : IsRequest(RequestOf[c])
  BY ReadAmountsAreNat DEF RequestOf

USE RequestsOfCtrs

--------------------------------------------------------------------------------
(***************************************************************************)
(* The type invariant, and what the steps do to cache and policy.          *)
(***************************************************************************)

\* The id under which the policy knows a container.
LEMMA IdOfType == ASSUME NEW c \in Ctr PROVE IdOf(c) \in Gid
  BY DEF IdOf

\* Two containers share an id only when they are instances of one container of
\* one pod: the ids of pods found after a restart are docker's, the others are
\* kubelet's.
LEMMA SameId ==
  ASSUME NEW c \in Ctr, NEW d \in Ctr, IdOf(c) = IdOf(d)
  PROVE  GidOf[c] = GidOf[d]
  BY DEF IdOf

\* CleanCache only takes entries out of the cache, and none of a container that
\* docker lists when docker answers.
LEMMA CleanCacheEffect ==
  ASSUME NEW list \in {"answered", "failed"}
  PROVE  /\ CleanCache(list).ctrs = (IF list = "answered" THEN cachedCtrs \cap Listed ELSE {})
         /\ CleanCache(list).unnamed \in {unnamed, NoCtr}
  BY DEF CleanCache, Cleaned

\* So it does when nothing is put into the cache; a list that fails is a fault.
LEMMA LeavesCleanCacheEffect ==
  ASSUME LeavesCleanCache
  PROVE  /\ cachedCtrs' \subseteq cachedCtrs
         /\ unnamed' \in {unnamed, NoCtr}
         /\ \/ faults' = faults /\ cachedCtrs' = cachedCtrs \cap Listed
            \/ Fault
<1>1. PICK list \in {"answered", "failed"} :
        ListIs(list) /\ cachedCtrs' = CleanCache(list).ctrs /\ unnamed' = CleanCache(list).unnamed
  BY DEF LeavesCleanCache
<1> QED
  BY <1>1, CleanCacheEffect DEF ListIs

\* Forgetting a container releases the grant of its id, if the container was in
\* the cache, and no other.
LEMMA ForgetEffect ==
  ASSUME TypeOK, NEW c \in Ctr, Forget(c)
  PROVE  /\ PolicyTypeOK'
         /\ cachedCtrs' = cachedCtrs \ {c}
         /\ unnamed' \in {unnamed, NoCtr}
         /\ \A g \in Gid : (g # IdOf(c) \/ c \notin cachedCtrs) => grants'[g] = grants[g]
         /\ UNCHANGED policyVars \/ ReleasePool(IdOf(c))
<1>1. UNCHANGED policyVars \/ (c \in cachedCtrs /\ ReleasePool(IdOf(c)))
  BY DEF Forget, PostStopContainerHook
<1>2. PolicyTypeOK /\ IdOf(c) \in Gid
  BY IdOfType DEF TypeOK
<1>3. PolicyTypeOK'
  <2>1. CASE UNCHANGED policyVars
    BY <1>2, <2>1 DEF PolicyTypeOK, policyVars
  <2>2. CASE ReleasePool(IdOf(c))
    BY <1>2, <2>2, ReleaseTypeOK
  <2> QED
    BY <1>1, <2>1, <2>2
<1>4. \A g \in Gid : (g # IdOf(c) \/ c \notin cachedCtrs) => grants'[g] = grants[g]
  BY <1>1, <1>2 DEF ReleasePool, policyVars, PolicyTypeOK
<1> QED
  BY <1>1, <1>3, <1>4 DEF Forget

\* What the create hook does: nothing to the policy, or an allocation from the
\* pool whose CPUs the container gets.
LEMMA HookCases ==
  ASSUME NEW c \in Ctr, NEW cache, PreCreateContainerHook(c, cache)
  PROVE  \/ UNCHANGED policyVars /\ Place(c, {})
         \/ /\ policy = "numa-aware" /\ UNCHANGED policyVars
            /\ \E n \in Numa : IsPreferredNode(RequestOf[c], cache, n) /\ Place(c, BlockOf(n))
         \/ /\ policy # "numa-aware"
            /\ \E p \in Pool :
                 /\ IsPoolFor(RequestOf[c], IsSystem(c), p)
                 /\ AllocatePool(IdOf(c), RequestOf[c], p)
                 /\ Place(c, CpusOf[p])
  BY DEF PreCreateContainerHook, NumaHook, TopologyHook

LEMMA BlockType == ASSUME NEW n \in Numa PROVE BlockOf(n) \subseteq Nat
<1>1. NumaCpus[0] \in SUBSET CpusOf[Root] /\ IsFiniteSet(CpusOf[Root])
  OBVIOUS
<1>2. Cardinality(NumaCpus[0]) \in Nat
  BY <1>1, FS_Subset, FS_CardinalityType
<1>3. n \in Nat
  BY DEF Numa
<1>4. n * Cardinality(NumaCpus[0]) \in Nat /\ (n + 1) * Cardinality(NumaCpus[0]) \in Nat
  BY <1>2, <1>3
<1> QED
  BY <1>4 DEF BlockOf

\* Every step keeps the state well typed.
LEMMA StepTypeOK == TypeOK /\ [Next]_vars => TypeOK'
<1> SUFFICES ASSUME TypeOK, [Next]_vars PROVE TypeOK'
  OBVIOUS
<1> USE DEF TypeOK, Fault
<1>0. UNCHANGED policyVars => PolicyTypeOK'
  BY DEF PolicyTypeOK, policyVars
<1>1. CASE UNCHANGED vars
  BY <1>0, <1>1 DEF vars, policyVars, dockerVars, cacheVars
<1>2. ASSUME NEW s \in Sandbox, RunSandbox(s) PROVE TypeOK'
  BY <1>0, <1>2, LeavesCleanCacheEffect DEF RunSandbox
<1>3. ASSUME NEW s \in Sandbox, StopSandbox(s) PROVE TypeOK'
  BY <1>0, <1>3 DEF StopSandbox, cacheVars
<1>4. ASSUME NEW s \in Sandbox, DeleteSandbox(s) PROVE TypeOK'
  BY <1>0, <1>4 DEF DeleteSandbox
<1>5. ASSUME NEW c \in Ctr, NEW list \in {"answered", "failed"}, CreateContainer(c, list)
      PROVE  TypeOK'
  <2>1. /\ policy' = policy /\ sandboxes' = sandboxes /\ up' = up /\ cachedPods' = cachedPods
        /\ reloaded' = reloaded
        /\ ctrs' \in [Ctr -> {"none", "created", "unstarted", "running", "exited", "refused",
                              "removed"}]
        /\ cachedCtrs' \subseteq Ctr /\ unnamed' \in Ctr \cup {NoCtr} /\ faults' \in 0..MaxFaults
    BY <1>5, CleanCacheEffect DEF CreateContainer, ListIs
  <2>2. PolicyTypeOK' /\ cpuset' \in [Ctr -> SUBSET Nat]
    <3>1. PreCreateContainerHook(c, CleanCache(list))
      BY <1>5 DEF CreateContainer
    <3>2. CASE UNCHANGED policyVars /\ Place(c, {})
      BY <1>0, <3>2 DEF Place
    <3>3. ASSUME UNCHANGED policyVars, NEW n \in Numa, Place(c, BlockOf(n))
          PROVE  PolicyTypeOK' /\ cpuset' \in [Ctr -> SUBSET Nat]
      BY <1>0, <3>3, BlockType DEF Place
    <3>4. ASSUME NEW p \in Pool, AllocatePool(IdOf(c), RequestOf[c], p), Place(c, CpusOf[p])
          PROVE  PolicyTypeOK' /\ cpuset' \in [Ctr -> SUBSET Nat]
      <4>1. PolicyTypeOK'
        BY <3>4, IdOfType, AllocateTypeOK
      <4>2. CpusOf[p] \subseteq Nat
        BY PoolCpusInRoot
      <4> QED
        BY <3>4, <4>1, <4>2 DEF Place
    <3> QED
      BY <3>1, <3>2, <3>3, <3>4, HookCases
  <2> QED
    BY <2>1, <2>2
<1>6. ASSUME NEW c \in Ctr, RefuseContainer(c) PROVE TypeOK'
  BY <1>0, <1>6, LeavesCleanCacheEffect DEF RefuseContainer
<1>7. ASSUME NEW c \in Ctr, StartContainer(c) PROVE TypeOK'
  BY <1>0, <1>7 DEF StartContainer, cacheVars
<1>8. ASSUME NEW c \in Ctr, StopContainer(c) PROVE TypeOK'
  BY <1>8, ForgetEffect DEF StopContainer
<1>9. ASSUME NEW c \in Ctr, FailStopContainer(c) PROVE TypeOK'
  BY <1>0, <1>9, ForgetEffect DEF FailStopContainer, dockerVars
<1>10. ASSUME NEW c \in Ctr, DeleteContainer(c) PROVE TypeOK'
  BY <1>0, <1>10 DEF DeleteContainer
<1>11. ASSUME NEW c \in Ctr, Exit(c) PROVE TypeOK'
  BY <1>0, <1>11 DEF Exit, cacheVars
<1>12. CASE Crash
  <2>1. PolicyTypeOK'
    BY <1>12 DEF Crash, PolicyTypeOK, EmptySupply, Supply
  <2>2. /\ faults < MaxFaults /\ faults' = faults + 1 /\ up' = FALSE
        /\ cachedPods' = {} /\ cachedCtrs' = {} /\ reloaded' = {} /\ unnamed' = NoCtr
        /\ policy' = policy /\ sandboxes' = sandboxes /\ ctrs' = ctrs /\ cpuset' = cpuset
    BY <1>12 DEF Crash, dockerVars
  <2>3. faults' \in 0..MaxFaults
    BY <2>2
  <2> QED
    BY <2>1, <2>2, <2>3
<1>13. CASE LoadStoreDocker
  BY <1>0, <1>13 DEF LoadStoreDocker, dockerVars
<1> QED
  BY <1>1, <1>2, <1>3, <1>4, <1>5, <1>6, <1>7, <1>8, <1>9, <1>10, <1>11, <1>12, <1>13 DEF Next

LEMMA InitTypeOK == Init => TypeOK
  BY DEF Init, TypeOK, PolicyInit, PolicyTypeOK, EmptySupply, Supply

\* Every part of the state keeps its type, through faults and restarts.
THEOREM TypeCorrect == Spec => []TypeOK
  BY InitTypeOK, StepTypeOK, PTL DEF Spec

--------------------------------------------------------------------------------
(***************************************************************************)
(* Capacity.                                                               *)
(***************************************************************************)
LEMMA StepWithinCapacity == TypeOK /\ WithinCapacity /\ [Next]_vars => WithinCapacity'
<1> SUFFICES ASSUME TypeOK, WithinCapacity, [Next]_vars, NEW q \in Pool \ {Root}
             PROVE  supply'[q].byRequest <= TotalSharedCPU(q)
  BY DEF WithinCapacity
<1>0. /\ PolicyTypeOK /\ PolicyTypeOK' /\ supply[q].byRequest <= TotalSharedCPU(q)
      /\ supply[q].byRequest \in Int /\ supply'[q].byRequest \in Int
      /\ TotalSharedCPU(q) \in Nat
  BY StepTypeOK, TotalIsNat DEF TypeOK, PolicyTypeOK, Supply, WithinCapacity
<1>1. CASE UNCHANGED policyVars
  BY <1>0, <1>1 DEF policyVars
<1>2. ASSUME NEW c \in Ctr, NEW list \in {"answered", "failed"}, CreateContainer(c, list)
      PROVE  supply'[q].byRequest <= TotalSharedCPU(q)
  <2>1. ASSUME NEW p \in Pool, IsPoolFor(RequestOf[c], IsSystem(c), p),
               AllocatePool(IdOf(c), RequestOf[c], p)
        PROVE  supply'[q].byRequest <= TotalSharedCPU(q)
    <3>1. p = Root \/ HasCapacity(supply, RequestOf[c], p)
      BY <2>1, SelectedPoolIsFiltered DEF IsPoolFor
    <3>2. supply' = Charge(supply, GrantOf(RequestOf[c], p))
      BY <2>1 DEF AllocatePool
    <3>3. CASE q \notin Path[p]
      BY <1>0, <3>2, <3>3 DEF Charge, GrantOf
    <3>4. CASE q \in Path[p]
      <4>1. supply'[q].byRequest = supply[q].byRequest + RequestOf[c].cpu
        BY <3>2, <3>4 DEF Charge, GrantOf, Add
      <4>2. supply[q].byRequest + RequestOf[c].cpu <= TotalSharedCPU(q)
        BY <1>0, <3>1, <3>4, ChargeWithinCapacity
      <4> QED
        BY <4>1, <4>2
    <3> QED
      BY <3>3, <3>4
  <2> QED
    BY <1>1, <1>2, <2>1, HookCases DEF CreateContainer
<1>3. ASSUME NEW c \in Ctr, Forget(c) PROVE supply'[q].byRequest <= TotalSharedCPU(q)
  <2>1. UNCHANGED policyVars \/ ReleasePool(IdOf(c))
    BY <1>3, ForgetEffect
  <2>2. ASSUME ReleasePool(IdOf(c)) PROVE supply'[q].byRequest <= TotalSharedCPU(q)
    BY <1>0, <2>2, IdOfType, ReleaseWithinCapacity
  <2> QED
    BY <1>1, <2>1, <2>2
<1>4. CASE Crash
  BY <1>0, <1>4 DEF Crash, EmptySupply
<1> QED
  BY <1>1, <1>2, <1>3, <1>4
  DEF Next, vars, policyVars, RunSandbox, StopSandbox, DeleteSandbox, RefuseContainer,
      StartContainer, StopContainer, FailStopContainer, DeleteContainer, Exit, LoadStoreDocker

\* However many grants a refused create leaves behind and a late stop takes
\* away, no pool below the root is charged by request with more CPU than it has
\* (filterPoolsByCapacity before supply.Allocate).
THEOREM DockerCapacityRespected == Spec => []WithinCapacity
<1>1. Init => WithinCapacity
  BY TotalIsNat DEF Init, PolicyInit, WithinCapacity, EmptySupply
<1> QED
  BY <1>1, InitTypeOK, StepTypeOK, StepWithinCapacity, PTL DEF Spec

--------------------------------------------------------------------------------
(***************************************************************************)
(* What runs pinned holds its grant, though the hooks of a stop may come   *)
(* late.                                                                   *)
(*                                                                         *)
(* A stop finds the grant of its id through the cached container.  The     *)
(* invariant says that a create has taken every older instance of the      *)
(* container out of the cache (CleanCache), but for those that never       *)
(* started, which are not stopped.                                         *)
(***************************************************************************)
OneLivePerId == \A c, d \in Live : GidOf[c] = GidOf[d] => c = d

NoStaleEntry ==
  \A d \in Live : \A c \in cachedCtrs :
    c # d /\ GidOf[c] = GidOf[d] => ctrs[c] = "unstarted"

EmptyWhileDown == ~up => cachedCtrs = {} /\ faults > 0

CacheInvariant ==
  /\ TypeOK
  /\ OneLivePerId
  /\ NoStaleEntry
  /\ EmptyWhileDown

HasItsGrant(c) == Held(IdOf(c)) /\ CpusOf[grants[IdOf(c)].pool] = cpuset[c]

\* The instance that a create adds is the only live one of its id, and nothing
\* else of its id is left in the cache but an instance that never started.
LEMMA StepCacheInvariant == CacheInvariant /\ [Next]_vars => CacheInvariant'
<1> SUFFICES ASSUME CacheInvariant, [Next]_vars
             PROVE  (OneLivePerId /\ NoStaleEntry /\ EmptyWhileDown)'
  BY StepTypeOK DEF CacheInvariant
<1> USE DEF CacheInvariant, OneLivePerId, NoStaleEntry, EmptyWhileDown, Live, InState
<1>0. TypeOK /\ TypeOK' /\ faults \in Nat /\ faults' \in Nat /\ faults' >= faults
  <2>1. TypeOK /\ TypeOK' /\ faults \in Nat /\ faults' \in Nat
    BY StepTypeOK DEF TypeOK
  <2>2. faults' = faults \/ faults' = faults + 1
    BY LeavesCleanCacheEffect DEF Next, ListIs, vars, RunSandbox, StopSandbox, DeleteSandbox, CreateContainer, RefuseContainer,
      StartContainer, StopContainer, FailStopContainer, DeleteContainer, Exit, Crash,
      LoadStoreDocker, Fault
  <2> QED
    BY <2>1, <2>2
<1>1. ASSUME UNCHANGED ctrs, cachedCtrs' \subseteq cachedCtrs, up' = up
      PROVE  (OneLivePerId /\ NoStaleEntry /\ EmptyWhileDown)'
  BY <1>0, <1>1
<1>2. ASSUME NEW c \in Ctr, NEW list \in {"answered", "failed"}, CreateContainer(c, list)
      PROVE  (OneLivePerId /\ NoStaleEntry /\ EmptyWhileDown)'
  <2>1. /\ ctrs[c] = "none" /\ up /\ up'
        /\ \A d \in Live : GidOf[d] # GidOf[c]
        /\ CleanCache(list).ctrs \subseteq cachedCtrs \cap Listed
    BY <1>2, CleanCacheEffect DEF CreateContainer, MayCreate
  <2>2. CASE ctrs' = [ctrs EXCEPT ![c] = "created"] /\ cachedCtrs' = CleanCache(list).ctrs \cup {c}
    <3>1. \A d \in Ctr : d # c => ctrs'[d] = ctrs[d]
      BY <1>0, <2>2 DEF TypeOK
    <3>2. ctrs'[c] = "created"
      BY <1>0, <2>2 DEF TypeOK
    <3>3. OneLivePerId'
      BY <2>1, <3>1, <3>2
    <3>4. NoStaleEntry'
      <4> SUFFICES ASSUME NEW d \in Ctr, ctrs'[d] \in {"created", "running"},
                          NEW e \in cachedCtrs', e # d, GidOf[e] = GidOf[d]
                   PROVE  ctrs'[e] = "unstarted"
        OBVIOUS
      <4>1. CASE d = c
        <5>1. e \in cachedCtrs /\ e \in Listed /\ e \in Ctr /\ ctrs'[e] = ctrs[e]
          BY <1>0, <2>1, <2>2, <3>1, <4>1 DEF TypeOK
        <5> QED
          BY <2>1, <4>1, <5>1 DEF Listed
      <4>2. CASE d # c
        <5>1. d \in Live /\ e # c
          BY <2>1, <3>1, <4>2
        <5>2. e \in cachedCtrs /\ e \in Ctr
          BY <1>0, <2>1, <2>2, <5>1 DEF TypeOK
        <5> QED
          BY <3>1, <5>1, <5>2
      <4> QED
        BY <4>1, <4>2
    <3> QED
      BY <2>1, <3>3, <3>4
  <2>3. CASE ctrs' = [ctrs EXCEPT ![c] = "refused"] /\ cachedCtrs' = CleanCache(list).ctrs
    BY <1>0, <2>1, <2>3 DEF TypeOK
  <2> QED
    BY <1>2, <2>2, <2>3 DEF CreateContainer
<1>3. ASSUME NEW c \in Ctr, RefuseContainer(c)
      PROVE  (OneLivePerId /\ NoStaleEntry /\ EmptyWhileDown)'
  <2>1. cachedCtrs' \subseteq cachedCtrs /\ up /\ up' /\ ctrs' = [ctrs EXCEPT ![c] = "refused"]
        /\ ctrs[c] = "none"
    BY <1>3, LeavesCleanCacheEffect DEF RefuseContainer, MayCreate
  <2> QED
    BY <1>0, <2>1 DEF TypeOK
<1>4. ASSUME NEW c \in Ctr, StartContainer(c)
      PROVE  (OneLivePerId /\ NoStaleEntry /\ EmptyWhileDown)'
  BY <1>0, <1>4 DEF StartContainer, TypeOK, cacheVars
<1>5. ASSUME NEW c \in Ctr, StopContainer(c) \/ Exit(c)
      PROVE  (OneLivePerId /\ NoStaleEntry /\ EmptyWhileDown)'
  <2>1. /\ up' = up /\ ctrs' = [ctrs EXCEPT ![c] = "exited"] /\ ctrs[c] \in {"running", "exited"}
        /\ cachedCtrs' = cachedCtrs \ {c} \/ (cachedCtrs' = cachedCtrs /\ ctrs[c] = "running")
        /\ faults' = faults
    BY <1>0, <1>5, ForgetEffect DEF StopContainer, Exit, cacheVars
  <2> QED
    BY <1>0, <2>1 DEF TypeOK
<1>6. ASSUME NEW c \in Ctr, FailStopContainer(c)
      PROVE  (OneLivePerId /\ NoStaleEntry /\ EmptyWhileDown)'
  BY <1>0, <1>1, <1>6, ForgetEffect DEF FailStopContainer, dockerVars
<1>7. ASSUME NEW c \in Ctr, DeleteContainer(c)
      PROVE  (OneLivePerId /\ NoStaleEntry /\ EmptyWhileDown)'
  <2>1. /\ up /\ up' /\ cachedCtrs' = cachedCtrs \ {c} /\ ctrs[c] \in {"exited", "unstarted"}
        /\ ctrs' = [ctrs EXCEPT ![c] = "removed"] \/ ctrs' = ctrs
    BY <1>7 DEF DeleteContainer
  <2> QED
    BY <1>0, <2>1 DEF TypeOK
<1>8. CASE Crash
  BY <1>0, <1>8 DEF Crash, dockerVars, Fault, TypeOK
<1>9. CASE LoadStoreDocker
  BY <1>0, <1>9 DEF LoadStoreDocker, dockerVars
<1>10. ASSUME NEW s \in Sandbox, RunSandbox(s) \/ StopSandbox(s) \/ DeleteSandbox(s)
       PROVE  (OneLivePerId /\ NoStaleEntry /\ EmptyWhileDown)'
  BY <1>1, <1>10, LeavesCleanCacheEffect DEF RunSandbox, StopSandbox, DeleteSandbox, cacheVars
<1>11. CASE UNCHANGED vars
  BY <1>1, <1>11 DEF vars, dockerVars, cacheVars
<1> QED
  BY <1>2, <1>3, <1>4, <1>5, <1>6, <1>7, <1>8, <1>9, <1>10, <1>11 DEF Next

\* A live pinned container keeps its grant, gets it by its own create, or loses
\* its place in the cache to a fault.
LEMMA StepPinnedHasGrant == CacheInvariant /\ PinnedHasGrant /\ [Next]_vars => PinnedHasGrant'
<1> SUFFICES ASSUME CacheInvariant, PinnedHasGrant, [Next]_vars, policy' = "topology-aware",
                    NEW d \in Ctr, ctrs'[d] \in {"created", "running"}, cpuset'[d] # {},
                    faults' = 0 \/ d \in cachedCtrs'
             PROVE  HasItsGrant(d)'
  BY DEF PinnedHasGrant, HasItsGrant, Live, InState
<1>0. /\ TypeOK /\ OneLivePerId /\ NoStaleEntry /\ EmptyWhileDown /\ IdOf(d) \in Gid
      /\ faults \in Nat /\ faults' \in Nat
  BY StepTypeOK, IdOfType DEF CacheInvariant, TypeOK
<1>1. policy = "topology-aware"
  BY DEF Next, vars, RunSandbox, StopSandbox, DeleteSandbox, CreateContainer, RefuseContainer,
    StartContainer, StopContainer, FailStopContainer, DeleteContainer, Exit, Crash,
    LoadStoreDocker
<1>2. ASSUME d \in Live, cpuset'[d] = cpuset[d], faults = 0 \/ d \in cachedCtrs,
             IdOf(d)' = IdOf(d), grants'[IdOf(d)] = grants[IdOf(d)]
      PROVE  HasItsGrant(d)'
  <2>1. HasItsGrant(d)
    BY <1>1, <1>2 DEF PinnedHasGrant, HasItsGrant
  <2> QED
    BY <1>2, <2>1 DEF HasItsGrant, Held
<1>3. ASSUME NEW c \in Ctr, NEW list \in {"answered", "failed"}, CreateContainer(c, list)
      PROVE  HasItsGrant(d)'
  <2>1. /\ ctrs[c] = "none" /\ reloaded' = reloaded /\ PreCreateContainerHook(c, CleanCache(list))
        /\ \A e \in Live : GidOf[e] # GidOf[c]
        /\ CleanCache(list).ctrs \subseteq cachedCtrs
        /\ cachedCtrs' \subseteq CleanCache(list).ctrs \cup {c}
        /\ \A e \in Ctr : e # c => ctrs'[e] = ctrs[e]
        /\ faults' = 0 => faults = 0
    BY <1>0, <1>3, CleanCacheEffect
    DEF CreateContainer, MayCreate, Live, InState, TypeOK, Fault, ListIs
  <2>2. IdOf(d)' = IdOf(d) /\ IdOf(c)' = IdOf(c)
    BY <2>1 DEF IdOf
  <2>3. CASE d = c
    <3>1. PICK p \in Pool : AllocatePool(IdOf(c), RequestOf[c], p) /\ Place(c, CpusOf[p])
      <4>1. ~Place(c, {})
        BY <1>0, <2>3 DEF Place, TypeOK
      <4> QED
        BY <1>1, <2>1, <4>1, HookCases
    <3>2. GrantOf(RequestOf[c], p) \in Grant /\ GrantOf(RequestOf[c], p).pool = p
      BY GrantOfType DEF GrantOf
    <3>3. grants'[IdOf(c)] = GrantOf(RequestOf[c], p) /\ cpuset'[c] = CpusOf[p]
      BY <1>0, <2>3, <3>1 DEF AllocatePool, Place, TypeOK, PolicyTypeOK
    <3> QED
      BY <2>2, <2>3, <3>2, <3>3 DEF HasItsGrant, Held
  <2>4. CASE d # c
    <3>1. d \in Live /\ (faults = 0 \/ d \in cachedCtrs)
      BY <2>1, <2>4 DEF Live, InState
    <3>2. IdOf(d) # IdOf(c)
      BY <2>1, <3>1, SameId
    <3>3. cpuset'[d] = cpuset[d] /\ grants'[IdOf(d)] = grants[IdOf(d)]
      <4>1. CASE UNCHANGED policyVars /\ Place(c, {})
        BY <1>0, <2>4, <4>1 DEF policyVars, Place, TypeOK
      <4>2. ASSUME NEW p \in Pool, AllocatePool(IdOf(c), RequestOf[c], p), Place(c, CpusOf[p])
            PROVE  cpuset'[d] = cpuset[d] /\ grants'[IdOf(d)] = grants[IdOf(d)]
        BY <1>0, <2>4, <3>2, <4>2 DEF AllocatePool, Place, TypeOK, PolicyTypeOK
      <4> QED
        BY <1>1, <2>1, <4>1, <4>2, HookCases
    <3> QED
      BY <1>2, <2>2, <3>1, <3>3
  <2> QED
    BY <2>3, <2>4
<1>4. ASSUME NEW c \in Ctr, StopContainer(c) PROVE HasItsGrant(d)'
  <2>1. /\ Forget(c) /\ ctrs[c] \in {"running", "exited"} /\ faults' = faults
        /\ UNCHANGED <<cpuset, reloaded>> /\ ctrs' = [ctrs EXCEPT ![c] = "exited"]
    BY <1>4 DEF StopContainer
  <2>2. d # c /\ d \in Live /\ (faults = 0 \/ d \in cachedCtrs)
    BY <1>0, <2>1, ForgetEffect DEF Live, InState, TypeOK
  <2>3. IdOf(d) = IdOf(c) => c \notin cachedCtrs
    BY <1>0, <2>1, <2>2, SameId DEF NoStaleEntry
  <2>4. grants'[IdOf(d)] = grants[IdOf(d)]
    BY <1>0, <2>1, <2>3, ForgetEffect
  <2> QED
    BY <1>2, <2>1, <2>2, <2>4 DEF IdOf
<1>5. ASSUME NEW c \in Ctr, FailStopContainer(c) PROVE HasItsGrant(d)'
  <2>1. /\ UNCHANGED <<ctrs, cpuset, reloaded>> /\ faults' = faults + 1 /\ ctrs[c] = "running"
        /\ Forget(c) \/ UNCHANGED <<policyVars, cachedCtrs>>
    BY <1>5 DEF FailStopContainer, Fault, dockerVars
  <2>2. d \in Live /\ d \in cachedCtrs'
    BY <1>0, <2>1 DEF Live, InState
  <2>3. CASE UNCHANGED <<policyVars, cachedCtrs>>
    BY <1>2, <2>1, <2>2, <2>3 DEF policyVars, IdOf
  <2>4. CASE Forget(c)
    <3>1. d # c /\ d \in cachedCtrs
      BY <1>0, <2>2, <2>4, ForgetEffect
    <3>2. IdOf(d) = IdOf(c) => c \notin cachedCtrs
      BY <1>0, <2>1, <2>2, <3>1, SameId DEF NoStaleEntry
    <3>3. grants'[IdOf(d)] = grants[IdOf(d)]
      BY <1>0, <2>4, <3>2, ForgetEffect
    <3> QED
      BY <1>2, <2>1, <2>2, <3>1, <3>3 DEF IdOf
  <2> QED
    BY <2>1, <2>3, <2>4
<1>6. ASSUME NEW s \in Sandbox, DeleteSandbox(s) PROVE HasItsGrant(d)'
  <2>1. /\ UNCHANGED <<policyVars, ctrs, cpuset, cachedCtrs>> /\ reloaded' = reloaded \ {s}
        /\ \A c \in Ctr : SandboxOf[c] = s => ctrs[c] \in {"none", "refused", "removed"}
        /\ faults' = 0 => faults = 0
    BY <1>0, <1>6 DEF DeleteSandbox, Fault, TypeOK
  <2>2. SandboxOf[d] # s /\ d \in Live
    BY <2>1 DEF Live, InState
  <2> QED
    BY <1>2, <2>1, <2>2 DEF IdOf, policyVars
<1>7. ASSUME UNCHANGED <<policyVars, cpuset, reloaded>>, cachedCtrs' \subseteq cachedCtrs,
             faults' = 0 => faults = 0, d \in Live
      PROVE  HasItsGrant(d)'
  BY <1>2, <1>7 DEF IdOf, policyVars
<1>8. ASSUME NEW c \in Ctr, RefuseContainer(c) \/ StartContainer(c) \/ Exit(c) \/ DeleteContainer(c)
      PROVE  HasItsGrant(d)'
  <2>1. /\ UNCHANGED <<policyVars, cpuset, reloaded>> /\ cachedCtrs' \subseteq cachedCtrs
        /\ faults' = 0 => faults = 0
    BY <1>0, <1>8, LeavesCleanCacheEffect
    DEF RefuseContainer, StartContainer, Exit, DeleteContainer, cacheVars, Fault
  <2>2. d \in Live
    BY <1>0, <1>8
    DEF RefuseContainer, StartContainer, Exit, DeleteContainer, TypeOK, Live, InState
  <2> QED
    BY <1>7, <2>1, <2>2
<1>9. ASSUME NEW s \in Sandbox, RunSandbox(s) \/ StopSandbox(s) PROVE HasItsGrant(d)'
  BY <1>0, <1>7, <1>9, LeavesCleanCacheEffect
  DEF RunSandbox, StopSandbox, cacheVars, Live, InState, Fault
<1>10. CASE Crash
  BY <1>0, <1>10 DEF Crash, Fault
<1>11. CASE LoadStoreDocker
  BY <1>0, <1>11 DEF LoadStoreDocker, Fault, EmptyWhileDown
<1>12. CASE UNCHANGED vars
  BY <1>7, <1>12 DEF vars, dockerVars, cacheVars, policyVars, Live, InState
<1> QED
  BY <1>3, <1>4, <1>5, <1>6, <1>8, <1>9, <1>10, <1>11, <1>12 DEF Next

LEMMA InitCacheInvariant == Init => CacheInvariant
  BY InitTypeOK
  DEF Init, CacheInvariant, OneLivePerId, NoStaleEntry, EmptyWhileDown, Live, InState

\* A container that is about to run or runs pinned holds the grant of its id,
\* on a pool with its CPUs, though the stop or the delete of an earlier instance
\* arrives late; after a fault, if it is still in the cache (CleanCache,
\* PostStopContainerHook).
THEOREM DockerPinnedKeepsGrant == Spec => []PinnedHasGrant
<1>1. Init => PinnedHasGrant
  BY DEF Init, PinnedHasGrant, Live, InState
<1> QED
  BY <1>1, InitCacheInvariant, StepCacheInvariant, StepPinnedHasGrant, PTL DEF Spec

--------------------------------------------------------------------------------
(***************************************************************************)
(* The numa-aware policy, whose only record of what runs is the cache.     *)
(***************************************************************************)

\* The machine the policy is written for: the NUMA nodes have equally many
\* CPUs, numbered in a row.
NodesInARow == \A n \in Numa : NumaCpus[n] = BlockOf(n)

LiveIsCached == faults = 0 => Live \subseteq cachedCtrs

CacheFinite == IsFiniteSet(cachedCtrs)

NumaInvariant ==
  /\ CacheInvariant
  /\ LiveIsCached
  /\ CacheFinite
  /\ NumaFits

LEMMA NodeSize ==
  ASSUME NodesInARow, NEW n \in Numa
  PROVE  Cardinality(NumaCpus[n]) = Cardinality(NumaCpus[0]) /\ Cardinality(NumaCpus[0]) \in Nat
<1> DEFINE size == Cardinality(NumaCpus[0])
<1>1. size \in Nat
  <2>1. NumaCpus[0] \in SUBSET CpusOf[Root] /\ IsFiniteSet(CpusOf[Root])
    OBVIOUS
  <2> QED
    BY <2>1, FS_Subset, FS_CardinalityType
<1>2. n \in Nat
  BY DEF Numa
<1> HIDE DEF size
<1>3. n * size \in Nat /\ (n + 1) * size = n * size + size
  BY <1>1, <1>2
<1>4. Cardinality((n * size)..((n + 1) * size - 1)) = size
  <2> DEFINE first == n * size
             last == (n + 1) * size - 1
  <2>1. first \in Int /\ last \in Int /\ last - first + 1 = size
    BY <1>1, <1>3
  <2> HIDE DEF first, last
  <2>2. Cardinality(first..last) = IF first > last THEN 0 ELSE last - first + 1
    BY <2>1, FS_Interval
  <2>3. Cardinality(first..last) = size
    BY <1>1, <2>1, <2>2
  <2> QED
    BY <2>3 DEF first, last
<1>5. NumaCpus[n] = (n * size)..((n + 1) * size - 1)
  BY DEF NodesInARow, BlockOf, size
<1> QED
  BY <1>1, <1>4, <1>5 DEF size

\* The cpuset written for a node is recognised as that node's and no other's.
LEMMA BlockIsOfItsNode ==
  ASSUME NodesInARow, NEW m \in Numa, NEW n \in Numa, IsNumaNodeOf(BlockOf(m), n)
  PROVE  m = n
<1>1. NumaCpus[m] = BlockOf(m) /\ BlockOf(m) # {} /\ Min(BlockOf(m)) \in NumaCpus[n]
  BY DEF NodesInARow, IsNumaNodeOf
<1>2. \E x \in BlockOf(m) : \A y \in BlockOf(m) : x <= y
  <2> DEFINE a == m * Cardinality(NumaCpus[0])
             b == (m + 1) * Cardinality(NumaCpus[0]) - 1
  <2>1. a \in Int /\ b \in Int
    <3>1. m \in Nat /\ Cardinality(NumaCpus[0]) \in Nat
      BY NodeSize DEF Numa
    <3> QED
      BY <3>1
  <2>2. BlockOf(m) = a..b
    BY DEF BlockOf
  <2> HIDE DEF a, b
  <2> QED
    BY <1>1, <2>1, <2>2
<1>3. Min(BlockOf(m)) \in BlockOf(m)
  BY <1>2 DEF Min
<1> QED
  BY <1>1, <1>3 DEF Numa

Confined(n) == {d \in Live : IsCounted(d, n)}

SharesOn(n) == SumFunction([c \in Confined(n) |-> LinuxResourcesOf(c).shares])

SharesOf(n) == SharesPerCPU * Cardinality(NumaCpus[n])

\* kubelet gives every container shares, 2 at least.
LEMMA SharesAreNat ==
  ASSUME NEW c \in Ctr
  PROVE  LinuxResourcesOf(c).shares \in Nat /\ LinuxResourcesOf(c).shares >= 2
<1>1. SpecOf[c].request \in Nat
  BY DEF IsContainer
<1> QED
  BY <1>1 DEF LinuxResourcesOf, ResourcesOf, LinuxResources, AtLeast, MinShares, SharesPerCPU

\* Rounding takes less than one share off a request of 3 shares or more.
LEMMA RoundingLosesNoShare ==
  ASSUME NEW s \in Nat, NEW used \in Nat, NEW cpus \in Nat, s >= 2,
         SharesToMilliCPU(s) * 1024 + used * 1000 <= 1000 * cpus * 1024
  PROVE  used + s <= 1024 * cpus + 2
<1>1. CASE s = 2
  <2>1. SharesToMilliCPU(s) = 0
    BY <1>1 DEF SharesToMilliCPU, MinShares
  <2> QED
    BY <1>1, <2>1
<1>2. CASE s # 2
  <2> DEFINE k == SharesToMilliCPU(s)
  <2>1. k = (2 * (s * 1000) + 1024) \div 2048
    BY <1>2 DEF SharesToMilliCPU, MinShares, SharesPerCPU, Round
  <2>2. k \in Int /\ 2048 * k > 2 * (s * 1000) + 1024 - 2048
    BY <2>1
  <2>3. k * 1024 + used * 1000 <= 1000 * cpus * 1024
    OBVIOUS
  <2> HIDE DEF k
  <2> QED
    BY ONLY <2>2, <2>3, s \in Nat, used \in Nat, cpus \in Nat
<1> QED
  BY <1>1, <1>2

\* Without faults the cache holds everything that is about to run or runs:
\* CleanCache keeps what docker lists, and only a stop takes an entry out.
LEMMA StepLiveIsCached == CacheInvariant /\ LiveIsCached /\ [Next]_vars => LiveIsCached'
<1> SUFFICES ASSUME CacheInvariant, LiveIsCached, [Next]_vars, faults' = 0,
                    NEW d \in Ctr, ctrs'[d] \in {"created", "running"}
             PROVE  d \in cachedCtrs'
  BY DEF LiveIsCached, Live, InState
<1>0. TypeOK /\ faults \in Nat /\ EmptyWhileDown
  BY DEF CacheInvariant, TypeOK
<1>1. faults = 0
  BY <1>0, LeavesCleanCacheEffect
  DEF Next, vars, RunSandbox, StopSandbox, DeleteSandbox, CreateContainer, RefuseContainer,
    StartContainer, StopContainer, FailStopContainer, DeleteContainer, Exit, Crash,
    LoadStoreDocker, Fault, ListIs
<1>2. ctrs[d] \in {"created", "running"} => d \in cachedCtrs /\ d \in Listed
  BY <1>1 DEF LiveIsCached, Live, InState, Listed
<1>3. ASSUME NEW c \in Ctr, NEW list \in {"answered", "failed"}, CreateContainer(c, list)
      PROVE  d \in cachedCtrs'
  BY <1>0, <1>1, <1>2, <1>3, CleanCacheEffect DEF CreateContainer, Fault, ListIs, TypeOK
<1>4. ASSUME NEW c \in Ctr, RefuseContainer(c) PROVE d \in cachedCtrs'
  BY <1>0, <1>1, <1>2, <1>4, LeavesCleanCacheEffect DEF RefuseContainer, Fault, TypeOK
<1>5. ASSUME NEW c \in Ctr, StartContainer(c) \/ Exit(c) PROVE d \in cachedCtrs'
  BY <1>0, <1>2, <1>5 DEF StartContainer, Exit, cacheVars, TypeOK
<1>6. ASSUME NEW c \in Ctr, StopContainer(c) PROVE d \in cachedCtrs'
  BY <1>0, <1>2, <1>6, ForgetEffect DEF StopContainer, TypeOK
<1>7. ASSUME NEW c \in Ctr, DeleteContainer(c) PROVE d \in cachedCtrs'
  BY <1>0, <1>2, <1>7 DEF DeleteContainer, TypeOK
<1>8. ASSUME NEW s \in Sandbox, RunSandbox(s) \/ StopSandbox(s) \/ DeleteSandbox(s)
      PROVE  d \in cachedCtrs'
  BY <1>0, <1>1, <1>2, <1>8, LeavesCleanCacheEffect
  DEF RunSandbox, StopSandbox, DeleteSandbox, cacheVars, Fault
<1>9. ASSUME NEW c \in Ctr, FailStopContainer(c) PROVE d \in cachedCtrs'
  BY <1>0, <1>9 DEF FailStopContainer, Fault
<1>10. CASE Crash
  BY <1>0, <1>10 DEF Crash, Fault
<1>11. CASE LoadStoreDocker
  BY <1>0, <1>1, <1>11 DEF LoadStoreDocker, EmptyWhileDown
<1>12. CASE UNCHANGED vars
  BY <1>2, <1>12 DEF vars, dockerVars, cacheVars
<1> QED
  BY <1>3, <1>4, <1>5, <1>6, <1>7, <1>8, <1>9, <1>10, <1>11, <1>12 DEF Next

\* The cache stays finite.
LEMMA StepCacheFinite == CacheInvariant /\ CacheFinite /\ [Next]_vars => CacheFinite'
<1> SUFFICES ASSUME CacheInvariant, CacheFinite, [Next]_vars PROVE IsFiniteSet(cachedCtrs')
  BY DEF CacheFinite
<1>1. ASSUME NEW c, cachedCtrs' \subseteq cachedCtrs \cup {c} PROVE IsFiniteSet(cachedCtrs')
  <2>1. IsFiniteSet(cachedCtrs \cup {c}) /\ cachedCtrs' \in SUBSET (cachedCtrs \cup {c})
    BY <1>1, FS_AddElement DEF CacheFinite
  <2> QED
    BY <2>1, FS_Subset
<1>2. \E c : cachedCtrs' \subseteq cachedCtrs \cup {c}
  <2>1. ASSUME cachedCtrs' \subseteq cachedCtrs PROVE \E c : cachedCtrs' \subseteq cachedCtrs \cup {c}
    BY <2>1
  <2>2. ASSUME NEW c \in Ctr, NEW list \in {"answered", "failed"}, CreateContainer(c, list)
        PROVE  \E e : cachedCtrs' \subseteq cachedCtrs \cup {e}
    BY <2>2, CleanCacheEffect DEF CreateContainer
  <2>3. ASSUME NEW c \in Ctr, StopContainer(c) \/ FailStopContainer(c)
        PROVE  cachedCtrs' \subseteq cachedCtrs
    BY <2>3, ForgetEffect DEF CacheInvariant, StopContainer, FailStopContainer
  <2>4. ASSUME NEW c \in Ctr,
               RefuseContainer(c) \/ StartContainer(c) \/ DeleteContainer(c) \/ Exit(c)
        PROVE  cachedCtrs' \subseteq cachedCtrs
    BY <2>4, LeavesCleanCacheEffect
    DEF RefuseContainer, StartContainer, DeleteContainer, Exit, cacheVars
  <2>5. ASSUME NEW s \in Sandbox, RunSandbox(s) \/ StopSandbox(s) \/ DeleteSandbox(s)
        PROVE  cachedCtrs' \subseteq cachedCtrs
    BY <2>5, LeavesCleanCacheEffect DEF RunSandbox, StopSandbox, DeleteSandbox, cacheVars
  <2>6. ASSUME Crash \/ LoadStoreDocker \/ UNCHANGED vars PROVE cachedCtrs' \subseteq cachedCtrs
    BY <2>6 DEF Crash, LoadStoreDocker, vars, cacheVars
  <2>7. \/ cachedCtrs' \subseteq cachedCtrs
        \/ \E c \in Ctr, list \in {"answered", "failed"} : CreateContainer(c, list)
    BY <2>3, <2>4, <2>5, <2>6 DEF Next
  <2> QED
    BY SMTT(40), <2>1, <2>2, <2>7
<1> QED
  BY <1>1, <1>2

\* The containers of a node are finitely many and have natural shares.
LEMMA ConfinedFinite ==
  ASSUME TypeOK, LiveIsCached, CacheFinite, faults = 0, NEW n
  PROVE  /\ IsFiniteSet(Confined(n))
         /\ \A c \in Confined(n) : LinuxResourcesOf(c).shares \in Nat
<1>1. Confined(n) \in SUBSET cachedCtrs
  BY DEF Confined, LiveIsCached
<1>2. IsFiniteSet(Confined(n))
  BY <1>1, FS_Subset DEF CacheFinite
<1> QED
  BY <1>2, SharesAreNat DEF Confined, Live, InState

\* When nothing new is confined to a node, the shares on it do not grow.
LEMMA FewerShares ==
  ASSUME TypeOK, LiveIsCached, CacheFinite, faults = 0, NEW n, Confined(n)' \subseteq Confined(n),
         SharesOn(n) <= SharesOf(n) + MinShares,
         Cardinality(NumaCpus[n]) \in Nat
  PROVE  SharesOn(n)' <= SharesOf(n) + MinShares
<1> DEFINE S == Confined(n)'
           T == Confined(n)
           Shares(X) == [c \in X |-> LinuxResourcesOf(c).shares]
<1>1. /\ IsFiniteSet(T) /\ S \in SUBSET T
      /\ DOMAIN Shares(S) = S /\ DOMAIN Shares(T) = T
      /\ \A c \in T : Shares(T)[c] \in Nat
      /\ \A c \in S : Shares(S)[c] = Shares(T)[c]
  BY ConfinedFinite
<1>2. SumFunction(Shares(S)) <= SumFunction(Shares(T))
  <2> HIDE DEF S, T, Shares
  <2> QED
    BY ONLY <1>1, FewerSum
<1>3. SumFunction(Shares(T)) \in Nat /\ SumFunction(Shares(S)) \in Nat
  <2>1. \A c \in S : Shares(S)[c] \in Nat
    BY <1>1
  <2>2. IsFiniteSet(S)
    BY <1>1, FS_Subset
  <2> HIDE DEF S, T, Shares
  <2>3. SumFunctionOnSet(Shares(T), T) \in Nat /\ SumFunctionOnSet(Shares(S), S) \in Nat
    BY ONLY <1>1, <2>1, <2>2, SumIsNat
  <2> QED
    BY <1>1, <2>3 DEF SumFunction
<1>4. SharesOn(n) = SumFunction(Shares(T)) /\ SharesOn(n)' = SumFunction(Shares(S))
  BY DEF SharesOn
<1>5. SharesOf(n) + MinShares \in Nat
  BY DEF SharesOf, SharesPerCPU, MinShares
<1> HIDE DEF S, T, Shares
<1> QED
  BY <1>2, <1>3, <1>4, <1>5

\* The preferred node has room for the shares of the new container next to those
\* confined to it: the entries that CleanCache leaves are counted, and they are all
\* that runs with a period.
LEMMA PreferredNodeHasRoom ==
  ASSUME TypeOK, LiveIsCached, CacheFinite, faults = 0, NEW c \in Ctr, NEW m \in Numa,
         IsPreferredNode(RequestOf[c], CleanCache("answered"), m)
  PROVE  /\ LinuxResourcesOf(c).shares + SharesOn(m) <= SharesOf(0) + MinShares
         /\ SharesOn(m) \in Nat
<1> DEFINE cache == CleanCache("answered")
           T == CountedOn(m, cache)
           S == Confined(m)
           Shares(X) == [d \in X |-> LinuxResourcesOf(d).shares]
<1>1. RequestOf[c].cpu * SharesPerCPU + CpuUsedByRequest(m, cache) * MilliPerCpu
        <= CpuTotal * SharesPerCPU
  BY DEF IsPreferredNode, NumaCandidates
<1>2. cache.ctrs = cachedCtrs \cap Listed /\ cache.unnamed \in {unnamed, NoCtr}
  BY CleanCacheEffect
<1>3. IsFiniteSet(T) /\ T \subseteq Ctr
  <2>1. T \in SUBSET (cachedCtrs \cup {unnamed}) /\ T \subseteq Ctr
    BY <1>2 DEF CountedOn, TypeOK
  <2>2. IsFiniteSet(cachedCtrs \cup {unnamed})
    BY FS_AddElement DEF CacheFinite
  <2> QED
    BY <2>1, <2>2, FS_Subset
<1>4. S \in SUBSET T
  BY <1>2 DEF CountedOn, Confined, LiveIsCached, Live, Listed, InState
<1>5. /\ DOMAIN Shares(S) = S /\ DOMAIN Shares(T) = T
      /\ \A d \in T : Shares(T)[d] \in Nat
      /\ \A d \in S : Shares(S)[d] = Shares(T)[d] /\ Shares(S)[d] \in Nat
  BY <1>3, <1>4, SharesAreNat
<1>6. IsFiniteSet(S)
  BY <1>3, <1>4, FS_Subset
<1>7. SharesOn(m) = SumFunction(Shares(S)) /\ CpuUsedByRequest(m, cache) = SumFunction(Shares(T))
  BY DEF SharesOn, CpuUsedByRequest
<1>8. SumFunction(Shares(S)) <= SumFunction(Shares(T))
  <2> HIDE DEF S, T, Shares
  <2> QED
    BY ONLY <1>3, <1>4, <1>5, FewerSum
<1>9. SumFunction(Shares(S)) \in Nat /\ SumFunction(Shares(T)) \in Nat
  <2> HIDE DEF S, T, Shares
  <2>1. SumFunctionOnSet(Shares(S), S) \in Nat /\ SumFunctionOnSet(Shares(T), T) \in Nat
    BY ONLY <1>3, <1>5, <1>6, SumIsNat
  <2> QED
    BY <1>5, <2>1 DEF SumFunction
<1>10. Cardinality(NumaCpus[0]) \in Nat
  <2>1. NumaCpus[0] \in SUBSET CpusOf[Root] /\ IsFiniteSet(CpusOf[Root])
    OBVIOUS
  <2> QED
    BY <2>1, FS_Subset, FS_CardinalityType
<1>11. RequestOf[c].cpu = SharesToMilliCPU(LinuxResourcesOf(c).shares)
  BY DEF RequestOf, Asked, EstimatedRequest, LinuxResourcesOf
<1>12. CpuUsedByRequest(m, cache) + LinuxResourcesOf(c).shares <= 1024 * Cardinality(NumaCpus[0]) + 2
  <2> DEFINE s == LinuxResourcesOf(c).shares
             used == CpuUsedByRequest(m, cache)
             cpus == Cardinality(NumaCpus[0])
  <2>1. s \in Nat /\ s >= 2 /\ used \in Nat /\ cpus \in Nat
    BY <1>7, <1>9, <1>10, SharesAreNat
  <2>2. SharesToMilliCPU(s) * 1024 + used * 1000 <= 1000 * cpus * 1024
    BY <1>1, <1>11 DEF CpuTotal, SharesPerCPU, MilliPerCpu
  <2> HIDE DEF s, used, cpus
  <2>3. used + s <= 1024 * cpus + 2
    BY ONLY <2>1, <2>2, RoundingLosesNoShare
  <2> QED
    BY <2>3 DEF s, used, cpus
<1>13. LinuxResourcesOf(c).shares \in Nat
  BY SharesAreNat
<1> HIDE DEF S, T, Shares, cache
<1> QED
  BY <1>7, <1>8, <1>9, <1>10, <1>12, <1>13 DEF SharesOf, SharesPerCPU, MinShares

\* The numa-aware policy adds a container to one node only, and only with room.
LEMMA StepNumaFits == NodesInARow /\ NumaInvariant /\ [Next]_vars => NumaFits'
<1> SUFFICES ASSUME NodesInARow, NumaInvariant, [Next]_vars, policy' = "numa-aware", faults' = 0,
                    NEW n \in Numa
             PROVE  SharesOn(n)' <= SharesOf(n) + MinShares
  BY DEF NumaFits, SharesOn, SharesOf, Confined
<1>0. TypeOK /\ LiveIsCached /\ CacheFinite /\ faults \in Nat
  BY DEF NumaInvariant, CacheInvariant, TypeOK
<1>1. faults = 0 /\ policy = "numa-aware"
  BY <1>0, LeavesCleanCacheEffect
  DEF Next, vars, RunSandbox, StopSandbox, DeleteSandbox, CreateContainer, RefuseContainer,
    StartContainer, StopContainer, FailStopContainer, DeleteContainer, Exit, Crash,
    LoadStoreDocker, Fault, ListIs
<1>2. /\ SharesOn(n) <= SharesOf(n) + MinShares
      /\ Cardinality(NumaCpus[n]) = Cardinality(NumaCpus[0]) /\ Cardinality(NumaCpus[n]) \in Nat
  BY <1>1, NodeSize DEF NumaInvariant, NumaFits, SharesOn, SharesOf, Confined
<1>3. ASSUME Confined(n)' \subseteq Confined(n)
      PROVE  SharesOn(n)' <= SharesOf(n) + MinShares
  BY <1>0, <1>1, <1>2, <1>3, FewerShares
<1>4. ASSUME NEW c \in Ctr, NEW list \in {"answered", "failed"}, CreateContainer(c, list)
      PROVE  SharesOn(n)' <= SharesOf(n) + MinShares
  <2>1. /\ list = "answered" /\ PreCreateContainerHook(c, CleanCache("answered"))
        /\ ctrs[c] = "none" /\ \A d \in Ctr \ {c} : ctrs'[d] = ctrs[d]
    BY <1>0, <1>1, <1>4 DEF CreateContainer, ListIs, Fault, MayCreate, TypeOK
  <2>2. ASSUME NEW cpus, Place(c, cpus), ~IsNumaNodeOf(cpus, n)
        PROVE  SharesOn(n)' <= SharesOf(n) + MinShares
    <3>1. cpuset'[c] = cpus /\ \A d \in Ctr \ {c} : cpuset'[d] = cpuset[d]
      BY <1>0, <2>2 DEF Place, TypeOK
    <3>2. Confined(n)' \subseteq Confined(n)
      BY <2>1, <2>2, <3>1 DEF Confined, IsCounted, Live, InState
    <3> QED
      BY <1>3, <3>2
  <2>3. CASE Place(c, {})
    BY <2>2, <2>3 DEF IsNumaNodeOf
  <2>4. ASSUME NEW m \in Numa, IsPreferredNode(RequestOf[c], CleanCache("answered"), m),
               Place(c, BlockOf(m))
        PROVE  SharesOn(n)' <= SharesOf(n) + MinShares
    <3>1. CASE ~IsNumaNodeOf(BlockOf(m), n)
      BY <2>2, <2>4, <3>1
    <3>2. CASE IsNumaNodeOf(BlockOf(m), n)
      <4>1. m = n
        BY <3>2, BlockIsOfItsNode
      <4>2. LinuxResourcesOf(c).shares + SharesOn(n) <= SharesOf(n) + MinShares /\ SharesOn(n) \in Nat
        <5>1. SharesOf(n) = SharesOf(0)
          BY <1>2 DEF SharesOf
        <5> QED
          BY <1>0, <1>1, <2>4, <4>1, <5>1, PreferredNodeHasRoom
      <4>3. CASE c \notin Live' \/ LinuxResourcesOf(c).period = 0
        <5>1. Confined(n)' \subseteq Confined(n)
          BY <1>0, <2>1, <2>4, <4>3 DEF Confined, IsCounted, Live, InState, Place, TypeOK
        <5> QED
          BY <1>3, <5>1
      <4>4. CASE c \in Live' /\ LinuxResourcesOf(c).period # 0
        <5>1. Confined(n)' = Confined(n) \cup {c} /\ c \notin Confined(n)
          BY <1>0, <2>1, <2>4, <3>2, <4>4 DEF Confined, IsCounted, Live, InState, Place, TypeOK
        <5>2. SharesOn(n)' = LinuxResourcesOf(c).shares + SharesOn(n)
          <6> DEFINE f == [d \in Confined(n) |-> LinuxResourcesOf(d).shares]
                     h == [d \in Confined(n) \cup {c} |-> LinuxResourcesOf(d).shares]
          <6>1. /\ IsFiniteSet(DOMAIN f) /\ c \notin DOMAIN f /\ DOMAIN h = DOMAIN f \cup {c}
                /\ \A d \in DOMAIN f : f[d] \in Int /\ h[d] = f[d]
                /\ h[c] \in Int /\ h[c] = LinuxResourcesOf(c).shares
            BY <1>0, <1>1, <5>1, ConfinedFinite, SharesAreNat
          <6>2. SumFunction(h) = h[c] + SumFunction(f)
            <7> HIDE DEF f, h
            <7> QED
              BY ONLY <6>1, TotalAdd
          <6>3. SharesOn(n) = SumFunction(f) /\ SharesOn(n)' = SumFunction(h)
            BY <5>1 DEF SharesOn
          <6> HIDE DEF f, h
          <6> QED
            BY <6>1, <6>2, <6>3
        <5> QED
          BY <4>2, <5>2
      <4> QED
        BY <4>3, <4>4
    <3> QED
      BY <3>1, <3>2
  <2> QED
    BY <1>1, <2>1, <2>3, <2>4, HookCases
<1>5. ASSUME UNCHANGED cpuset, Live' \subseteq Live
      PROVE  SharesOn(n)' <= SharesOf(n) + MinShares
  <2>1. Confined(n)' \subseteq Confined(n)
    BY <1>5 DEF Confined, IsCounted
  <2> QED
    BY <1>3, <2>1
<1>6. ASSUME NEW c \in Ctr, RefuseContainer(c) \/ StartContainer(c) \/ StopContainer(c)
               \/ FailStopContainer(c) \/ DeleteContainer(c) \/ Exit(c)
      PROVE  UNCHANGED cpuset /\ Live' \subseteq Live
  BY <1>0, <1>6 DEF RefuseContainer, MayCreate, StartContainer, StopContainer,
    FailStopContainer, DeleteContainer, Exit, dockerVars, Live, InState, TypeOK
<1>7. ASSUME NEW s \in Sandbox, RunSandbox(s) \/ StopSandbox(s) \/ DeleteSandbox(s)
      PROVE  UNCHANGED cpuset /\ Live' \subseteq Live
  BY <1>7 DEF RunSandbox, StopSandbox, DeleteSandbox, Live, InState
<1>8. ASSUME Crash \/ LoadStoreDocker \/ UNCHANGED vars
      PROVE  UNCHANGED cpuset /\ Live' \subseteq Live
  BY <1>8 DEF Crash, LoadStoreDocker, vars, dockerVars, Live, InState
<1> QED
  BY <1>4, <1>5, <1>6, <1>7, <1>8 DEF Next

\* The shares of the containers confined to a NUMA node, those with a CFS period,
\* are never more than 1024 for each of its CPUs, and 2, as long as no request
\* fails: the cache, cleaned before every create, is a true record of what runs,
\* and the rounded request that is added to it stands for no fewer shares
\* (CleanCache, GetNodeResources, GetPreferredNumaNode).
THEOREM NumaNodesFit == NodesInARow /\ Spec => []NumaFits
<1>1. NodesInARow /\ Init => NumaInvariant
  <2> SUFFICES ASSUME NodesInARow, Init PROVE NumaInvariant
    OBVIOUS
  <2>1. CacheInvariant /\ LiveIsCached
    BY InitCacheInvariant DEF Init, LiveIsCached, Live, InState
  <2>2. CacheFinite
    BY FS_EmptySet DEF Init, CacheFinite
  <2>3. ASSUME NEW n \in Numa PROVE SharesOn(n) <= SharesOf(n) + MinShares
    <3>1. Confined(n) = {}
      BY DEF Init, Confined, Live, InState
    <3>2. SharesOn(n) = 0
      BY <3>1, SumEmpty DEF SharesOn, SumFunction
    <3>3. Cardinality(NumaCpus[n]) \in Nat
      BY NodeSize
    <3> QED
      BY <3>2, <3>3 DEF SharesOf, SharesPerCPU, MinShares
  <2> QED
    BY <2>1, <2>2, <2>3 DEF NumaInvariant, NumaFits, SharesOn, SharesOf, Confined
<1>2. NodesInARow /\ NumaInvariant /\ [Next]_vars => NumaInvariant'
  BY StepCacheInvariant, StepLiveIsCached, StepCacheFinite, StepNumaFits DEF NumaInvariant
<1>3. CASE NodesInARow
  BY <1>1, <1>2, <1>3, PTL DEF Spec, NumaInvariant
<1>4. CASE ~NodesInARow
  BY <1>4
<1> QED
  BY <1>3, <1>4
===================================================================================
